---------------------------- MODULE Spec2Model ----------------------------
(***************************************************************************)
(* A model of youtu.go, the Go client of the open.youtu.qq.com face API:   *)
(* the credential (AppSign), the client (Youtu), the signer (orignalSign,  *)
(* sign), the transport (get) and the dispatcher (interfaceRequest) with   *)
(* the fourteen typed operations built on it.                              *)
(*                                                                         *)
(* Go strings that are measured, formatted or hashed (the credential's     *)
(* strings, the canonical string, the token, the url) are sequences of     *)
(* bytes 0..255, as in Go.  JSON text payloads are TLA+ strings.           *)
(***************************************************************************)
EXTENDS Integers, Sequences, FiniteSets, TLC

(***************************************************************************)
(* Bounds of the model.                                                    *)
(***************************************************************************)
\* the clock starts at this unix second
StartTime == 1000
\* and advances at most this many seconds during a run
MaxTicks == 2
\* user ids of UserIDMaxLen - LenSlack .. UserIDMaxLen + LenSlack bytes
LenSlack == 1

(***************************************************************************)
(* Byte strings.                                                           *)
(***************************************************************************)
Byte == 0..255

\* n copies of the byte string s
Rep(s, n) == [i \in 1..(n * Len(s)) |-> s[((i - 1) % Len(s)) + 1]]

\* the printable ASCII characters, 32..126, in order (96, the backquote, as "?")
Ascii ==
  << " ", "!", "\"", "#", "$", "%", "&", "'", "(", ")", "*", "+", ",", "-", ".", "/",
     "0", "1", "2", "3", "4", "5", "6", "7", "8", "9", ":", ";", "<", "=", ">", "?",
     "@", "A", "B", "C", "D", "E", "F", "G", "H", "I", "J", "K", "L", "M", "N", "O",
     "P", "Q", "R", "S", "T", "U", "V", "W", "X", "Y", "Z", "[", "\\", "]", "^", "_",
     "?", "a", "b", "c", "d", "e", "f", "g", "h", "i", "j", "k", "l", "m", "n", "o",
     "p", "q", "r", "s", "t", "u", "v", "w", "x", "y", "z", "{", "|", "}", "~" >>

\* the text of a byte string, a byte outside printable ASCII shown as "?"
RECURSIVE Text(_)
Text(s) ==
  IF Len(s) = 0 THEN ""
  ELSE IF Len(s) = 1 THEN
    (IF s[1] >= 32 /\ s[1] <= 126 THEN Ascii[s[1] - 31] ELSE "?")
  ELSE Text(SubSeq(s, 1, Len(s) \div 2)) \o Text(SubSeq(s, (Len(s) \div 2) + 1, Len(s)))

\* strconv.Itoa / the %d verb: the decimal digits of n, "-" first when n < 0
RECURSIVE Digits(_)
Digits(n) ==
  IF n < 10 THEN <<48 + n>> ELSE Digits(n \div 10) \o <<48 + (n % 10)>>

Itoa(n) == IF n < 0 THEN <<45>> \o Digits(0 - n) ELSE Digits(n)

(***************************************************************************)
(* crypto/sha1 and crypto/hmac, as sign calls them.  A 32-bit word is      *)
(* <<high 16 bits, low 16 bits>>.                                          *)
(***************************************************************************)
\* a AND b for 4-bit a and b, at index 16 * a + b + 1
AndNib ==
  << 0, 0, 0, 0, 0, 0, 0, 0, 0, 0, 0, 0, 0, 0, 0, 0,
     0, 1, 0, 1, 0, 1, 0, 1, 0, 1, 0, 1, 0, 1, 0, 1,
     0, 0, 2, 2, 0, 0, 2, 2, 0, 0, 2, 2, 0, 0, 2, 2,
     0, 1, 2, 3, 0, 1, 2, 3, 0, 1, 2, 3, 0, 1, 2, 3,
     0, 0, 0, 0, 4, 4, 4, 4, 0, 0, 0, 0, 4, 4, 4, 4,
     0, 1, 0, 1, 4, 5, 4, 5, 0, 1, 0, 1, 4, 5, 4, 5,
     0, 0, 2, 2, 4, 4, 6, 6, 0, 0, 2, 2, 4, 4, 6, 6,
     0, 1, 2, 3, 4, 5, 6, 7, 0, 1, 2, 3, 4, 5, 6, 7,
     0, 0, 0, 0, 0, 0, 0, 0, 8, 8, 8, 8, 8, 8, 8, 8,
     0, 1, 0, 1, 0, 1, 0, 1, 8, 9, 8, 9, 8, 9, 8, 9,
     0, 0, 2, 2, 0, 0, 2, 2, 8, 8, 10, 10, 8, 8, 10, 10,
     0, 1, 2, 3, 0, 1, 2, 3, 8, 9, 10, 11, 8, 9, 10, 11,
     0, 0, 0, 0, 4, 4, 4, 4, 8, 8, 8, 8, 12, 12, 12, 12,
     0, 1, 0, 1, 4, 5, 4, 5, 8, 9, 8, 9, 12, 13, 12, 13,
     0, 0, 2, 2, 4, 4, 6, 6, 8, 8, 10, 10, 12, 12, 14, 14,
     0, 1, 2, 3, 4, 5, 6, 7, 8, 9, 10, 11, 12, 13, 14, 15 >>

And16(a, b) ==
    AndNib[16 * (a \div 4096) + (b \div 4096) + 1] * 4096
  + AndNib[16 * ((a \div 256) % 16) + ((b \div 256) % 16) + 1] * 256
  + AndNib[16 * ((a \div 16) % 16) + ((b \div 16) % 16) + 1] * 16
  + AndNib[16 * (a % 16) + (b % 16) + 1]

Xor16(a, b) == a + b - 2 * And16(a, b)

WAnd(u, v) == <<And16(u[1], v[1]), And16(u[2], v[2])>>

WXor(u, v) == <<Xor16(u[1], v[1]), Xor16(u[2], v[2])>>

WNot(u) == <<65535 - u[1], 65535 - u[2]>>

WOr(u, v) == <<u[1] + v[1] - And16(u[1], v[1]), u[2] + v[2] - And16(u[2], v[2])>>

\* addition modulo 2^32
WAdd(u, v) ==
  LET lo == u[2] + v[2]
  IN <<(u[1] + v[1] + (lo \div 65536)) % 65536, lo % 65536>>

\* rotation to the left by n bits, 0 < n < 32
Rotl(u, n) ==
  LET w == IF n < 16 THEN u ELSE <<u[2], u[1]>>
      p == 2 ^ (n % 16)
      q == 2 ^ (16 - (n % 16))
  IN <<((w[1] * p) % 65536) + (w[2] \div q), ((w[2] * p) % 65536) + (w[1] \div q)>>

\* the message schedule: the words w extended by n more
RECURSIVE Schedule(_, _)
Schedule(w, n) ==
  IF Len(w) >= 80 \/ n = 0 THEN w
  ELSE IF n = 1 THEN
    LET t == Len(w) + 1
    IN Append(w, Rotl(WXor(WXor(w[t - 3], w[t - 8]), WXor(w[t - 14], w[t - 16])), 1))
  ELSE Schedule(Schedule(w, n \div 2), n - (n \div 2))

ShaF(t, b, c, d) ==
  IF t < 20 THEN WOr(WAnd(b, c), WAnd(WNot(b), d))
  ELSE IF t < 40 THEN WXor(WXor(b, c), d)
  ELSE IF t < 60 THEN WOr(WOr(WAnd(b, c), WAnd(b, d)), WAnd(c, d))
  ELSE WXor(WXor(b, c), d)

\* 5A827999, 6ED9EBA1, 8F1BBCDC, CA62C1D6
ShaK(t) ==
  IF t < 20 THEN <<23170, 31129>>
  ELSE IF t < 40 THEN <<28377, 60321>>
  ELSE IF t < 60 THEN <<36635, 48348>>
  ELSE <<51810, 49622>>

\* n rounds on s = <<a, b, c, d, e, round>>, none past the eightieth
RECURSIVE Rounds(_, _, _)
Rounds(s, w, n) ==
  IF s[6] >= 80 \/ n = 0 THEN s
  ELSE IF n = 1 THEN
    LET t == s[6]
        tmp == WAdd(WAdd(WAdd(WAdd(Rotl(s[1], 5), ShaF(t, s[2], s[3], s[4])),
                              s[5]), ShaK(t)), w[t + 1])
    IN <<tmp, s[1], Rotl(s[2], 30), s[3], s[4], t + 1>>
  ELSE Rounds(Rounds(s, w, n \div 2), w, n - (n \div 2))

\* one block of 64 bytes folded into the chaining value h
ShaBlock(h, blk) ==
  LET w == Schedule([i \in 1..16 |->
                      <<blk[4 * i - 3] * 256 + blk[4 * i - 2],
                        blk[4 * i - 1] * 256 + blk[4 * i]>>], 64)
      s == Rounds(h \o <<0>>, w, 80)
  IN <<WAdd(h[1], s[1]), WAdd(h[2], s[2]), WAdd(h[3], s[3]),
       WAdd(h[4], s[4]), WAdd(h[5], s[5])>>

\* the message, 0x80, zeros up to 56 modulo 64, and the length in bits
ShaPad(m) ==
  LET l == Len(m)
      z == (119 - (l % 64)) % 64
      bits == l * 8
  IN m \o <<128>> \o Rep(<<0>>, z)
       \o <<0, 0, 0, 0, 0, (bits \div 65536) % 256, (bits \div 256) % 256, bits % 256>>

RECURSIVE ShaBlocks(_, _)
ShaBlocks(h, m) ==
  IF Len(h) = 0 \/ m = <<>> THEN h
  ELSE ShaBlocks(ShaBlock(h, SubSeq(m, 1, 64)), SubSeq(m, 65, Len(m)))

\* 67452301, EFCDAB89, 98BADCFE, 10325476, C3D2E1F0
ShaInit ==
  << <<26437, 8961>>, <<61389, 43913>>, <<39098, 56574>>, <<4146, 21622>>,
     <<50130, 57840>> >>

WBytes(u) == <<u[1] \div 256, u[1] % 256, u[2] \div 256, u[2] % 256>>

\* sha1.New: the 20-byte digest of the byte string m
Sha1(m) ==
  LET h == ShaBlocks(ShaInit, ShaPad(m))
  IN WBytes(h[1]) \o WBytes(h[2]) \o WBytes(h[3]) \o WBytes(h[4]) \o WBytes(h[5])

\* the key, zero-padded to the block size, xored with the byte c
HmacPad(k, c) == [i \in 1..64 |-> Xor16(IF i <= Len(k) THEN k[i] ELSE 0, c)]

\* hmac.New(sha1.New, key); h.Write(m); h.Sum(nil)
HmacSha1(key, m) ==
  LET k == IF Len(key) > 64 THEN Sha1(key) ELSE key
  IN Sha1(HmacPad(k, 92) \o Sha1(HmacPad(k, 54) \o m))

(***************************************************************************)
(* encoding/base64, StdEncoding.                                           *)
(***************************************************************************)
\* the byte of the base64 digit i, 0 <= i < 64: A-Z a-z 0-9 + /
B64Char(i) ==
  IF i < 26 THEN 65 + i
  ELSE IF i < 52 THEN 97 + (i - 26)
  ELSE IF i < 62 THEN 48 + (i - 52)
  ELSE IF i = 62 THEN 43 ELSE 47

\* base64.StdEncoding.EncodeToString: each three bytes as four digits, the last
\* group of one or two bytes padded with "="
EncodeToString(b) ==
  [i \in 1..(4 * ((Len(b) + 2) \div 3)) |->
     LET g == 3 * ((i - 1) \div 4)
         j == (i - 1) % 4
         b1 == b[g + 1]
         b2 == IF g + 2 <= Len(b) THEN b[g + 2] ELSE 0
         b3 == IF g + 3 <= Len(b) THEN b[g + 3] ELSE 0
     IN IF j = 0 THEN B64Char(b1 \div 4)
        ELSE IF j = 1 THEN B64Char((b1 % 4) * 16 + (b2 \div 16))
        ELSE IF j = 2 THEN
          (IF g + 2 > Len(b) THEN 61 ELSE B64Char((b2 % 16) * 4 + (b3 \div 64)))
        ELSE (IF g + 3 > Len(b) THEN 61 ELSE B64Char(b3 % 64))]

(***************************************************************************)
(* math/rand, the process-wide generator: the additive lagged Fibonacci    *)
(* generator of rngSource, x(n) = x(n - 607) + x(n - 273) mod 2^64.  A      *)
(* 64-bit word is <<d3, d2, d1, d0>>, its four 16-bit digits, the most      *)
(* significant first.  The state kept is the seed last given and the       *)
(* number of values drawn since, which fix the 607 words of rngSource.vec. *)
(***************************************************************************)
rngLen == 607

rngTap == 273

Int32Max == 2147483647

\* rngCooked: the table math/rand mixes into the seeded state, word by word
\* (rngCooked[1] is Go's rngCooked[0] = -4181792142133755926)
rngCooked ==
  <<
     <<50679, 18995, 60312, 65514>>, <<49275, 19009, 47766, 24411>>, <<4958, 50451, 52097, 44815>>,
     <<18948, 64348, 42819, 38379>>, <<42984, 33564, 30480, 53134>>, <<32093, 58600, 36663, 49603>>,
     <<25377, 53111, 17407, 34217>>, <<17099, 1621, 27295, 63841>>, <<28198, 51409, 16616, 55250>>,
     <<18855, 20767, 13329, 64160>>, <<29165, 30537, 8870, 20565>>, <<40284, 40902, 24554, 11612>>,
     <<16317, 43833, 18945, 17256>>, <<28922, 13145, 27026, 13323>>, <<44560, 64334, 52902, 27138>>,
     <<63391, 48297, 35772, 53642>>, <<38903, 52401, 11939, 32940>>, <<401, 55188, 51955, 11035>>,
     <<16234, 12852, 9443, 11439>>, <<50754, 52370, 7937, 5163>>, <<41250, 34463, 20467, 32872>>,
     <<42417, 41745, 10159, 14624>>, <<23303, 42233, 48578, 40342>>, <<27178, 38716, 10625, 9606>>,
     <<27300, 13275, 63354, 21217>>, <<33684, 8558, 15242, 51614>>, <<56192, 43461, 20827, 39292>>,
     <<963, 62191, 62411, 63337>>, <<42677, 58417, 61183, 8460>>, <<3784, 21300, 39209, 21493>>,
     <<11882, 5170, 57104, 53737>>, <<48612, 25241, 22993, 45385>>, <<26521, 19512, 30264, 31057>>,
     <<3605, 54369, 21915, 44643>>, <<48575, 38596, 59858, 41079>>, <<45135, 25222, 27354, 8435>>,
     <<8592, 55830, 18139, 38847>>, <<20593, 34620, 6194, 38266>>, <<15931, 20538, 6618, 36939>>,
     <<13283, 34981, 62151, 34088>>, <<48839, 2988, 6608, 59511>>, <<37, 26992, 63515, 61554>>,
     <<63441, 35348, 63055, 43142>>, <<42094, 63864, 46292, 29516>>, <<30767, 61783, 12583, 42894>>,
     <<36, 6922, 54683, 60326>>, <<56005, 18777, 8169, 23343>>, <<24981, 64242, 34892, 11577>>,
     <<22172, 11197, 45295, 13405>>, <<2955, 24633, 20620, 57886>>, <<61205, 30320, 21557, 53947>>,
     <<7518, 36874, 62961, 55543>>, <<7824, 11544, 32127, 54327>>, <<32546, 31612, 36832, 60281>>,
     <<14457, 3682, 491, 48024>>, <<17537, 36524, 31010, 57713>>, <<1624, 54981, 20698, 54080>>,
     <<33983, 47252, 52338, 38554>>, <<42885, 20801, 58291, 10685>>, <<40115, 5462, 45498, 59206>>,
     <<15520, 36868, 63848, 28489>>, <<3152, 5229, 32336, 34665>>, <<52533, 55551, 37722, 51568>>,
     <<56984, 6324, 43541, 21720>>, <<19955, 32509, 25651, 55968>>, <<62865, 59821, 1458, 57430>>,
     <<5991, 60171, 56312, 15913>>, <<47140, 29330, 21330, 39410>>, <<47846, 17815, 23134, 19691>>,
     <<60650, 30741, 23611, 49963>>, <<20009, 24147, 22444, 59502>>, <<35728, 27290, 20397, 47880>>,
     <<64848, 2154, 63044, 25545>>, <<44291, 34220, 64793, 55036>>, <<48102, 54437, 57809, 15007>>,
     <<64521, 40755, 47003, 924>>, <<55672, 8740, 33804, 23093>>, <<5966, 14524, 17877, 6863>>,
     <<21496, 12191, 21726, 20030>>, <<57613, 64010, 34739, 61198>>, <<59913, 55788, 31555, 38761>>,
     <<20894, 50119, 52300, 20497>>, <<2887, 39183, 50195, 58325>>, <<16135, 57470, 53198, 23522>>,
     <<42450, 53432, 46873, 8894>>, <<17694, 59935, 51324, 51041>>, <<51280, 24286, 63473, 55005>>,
     <<64366, 55182, 28, 59653>>, <<55244, 2614, 17652, 26810>>, <<5314, 12763, 11844, 10704>>,
     <<57884, 52634, 37012, 15827>>, <<26184, 27125, 10383, 49873>>, <<56773, 28512, 19990, 36789>>,
     <<16721, 58539, 45233, 64246>>, <<60566, 18408, 52903, 47399>>, <<30375, 16920, 32190, 25054>>,
     <<32887, 36160, 18808, 3644>>, <<37489, 17478, 49772, 58387>>, <<25927, 23488, 6631, 28683>>,
     <<3592, 30749, 24792, 27927>>, <<40719, 4073, 54773, 29152>>, <<18286, 25279, 13192, 28247>>,
     <<35953, 3327, 21070, 46310>>, <<9448, 22181, 40504, 39333>>, <<21663, 31883, 22403, 6298>>,
     <<38920, 21404, 1538, 20>>, <<47356, 23022, 45649, 21607>>, <<62351, 65419, 33945, 42516>>,
     <<62886, 11239, 14909, 21026>>, <<20619, 33411, 11084, 18488>>, <<62736, 40903, 26671, 63710>>,
     <<54044, 44529, 23749, 16140>>, <<49522, 1289, 16491, 22566>>, <<59648, 29010, 4284, 38650>>,
     <<1796, 65077, 14035, 37883>>, <<50780, 39790, 52398, 64330>>, <<35759, 50992, 37566, 16409>>,
     <<2032, 46489, 55160, 35306>>, <<6366, 2633, 47354, 22683>>, <<12055, 20081, 51587, 4080>>,
     <<46192, 46976, 41575, 34269>>, <<8358, 46945, 9137, 25278>>, <<37359, 48420, 52677, 33570>>,
     <<64379, 46928, 9907, 9763>>, <<53309, 7343, 39455, 1232>>, <<42480, 63753, 48302, 59681>>,
     <<18090, 31981, 40220, 36363>>, <<64728, 42910, 31330, 46841>>, <<15044, 52997, 48360, 16148>>,
     <<17861, 31136, 2208, 14276>>, <<16467, 34958, 21113, 4816>>, <<63631, 41138, 10399, 31511>>,
     <<20987, 44893, 8194, 48602>>, <<35556, 936, 4810, 18308>>, <<3454, 41527, 12959, 42064>>,
     <<52031, 1215, 694, 61960>>, <<51094, 25662, 35385, 60723>>, <<64914, 55198, 55131, 25625>>,
     <<8552, 8648, 45656, 59564>>, <<59709, 15103, 31558, 59697>>, <<14000, 34188, 64695, 11114>>,
     <<44638, 15519, 59391, 4455>>, <<10996, 50069, 14620, 49829>>, <<59076, 64775, 28651, 30326>>,
     <<20719, 46587, 12781, 59251>>, <<28031, 9267, 23003, 64686>>, <<29075, 59200, 13326, 4059>>,
     <<36853, 8051, 42182, 56722>>, <<37971, 19310, 64028, 43366>>, <<49258, 29253, 8407, 3393>>,
     <<12493, 5821, 6418, 1426>>, <<36165, 27480, 3116, 55004>>, <<23650, 48141, 27268, 10735>>,
     <<18548, 20137, 47337, 14686>>, <<6383, 5250, 23684, 44769>>, <<18974, 12983, 14961, 57908>>,
     <<4078, 28455, 50258, 10432>>, <<17998, 11835, 57554, 58529>>, <<9147, 26612, 33505, 24584>>,
     <<3857, 46401, 59428, 29479>>, <<44669, 63756, 32042, 45015>>, <<21729, 62614, 5164, 14618>>,
     <<7488, 3830, 9722, 17012>>, <<39174, 38502, 4302, 40467>>, <<8773, 22836, 55233, 52442>>,
     <<58945, 16953, 47066, 37408>>, <<46239, 37009, 63015, 21846>>, <<33425, 27453, 25640, 35517>>,
     <<40786, 53409, 50950, 28576>>, <<25642, 26220, 64396, 61601>>, <<35997, 38941, 45155, 44419>>,
     <<25567, 41569, 22710, 32330>>, <<52796, 65078, 60396, 49887>>, <<46820, 60203, 42323, 25855>>,
     <<28626, 6046, 3447, 6097>>, <<47473, 41655, 13858, 18395>>, <<56293, 53029, 54544, 50491>>,
     <<37647, 10413, 29555, 21089>>, <<23189, 56577, 1151, 60299>>, <<12461, 45376, 29528, 46170>>,
     <<32692, 18294, 30796, 4227>>, <<6944, 59636, 60167, 21510>>, <<56359, 24384, 46791, 49369>>,
     <<29485, 63709, 42619, 3879>>, <<46630, 14255, 50308, 51333>>, <<25033, 34377, 33675, 63025>>,
     <<57094, 8174, 12327, 32600>>, <<38355, 8709, 11692, 5205>>, <<31443, 1158, 58488, 44777>>,
     <<12903, 8735, 19150, 53573>>, <<18328, 1797, 11317, 26296>>, <<43010, 21328, 42878, 41145>>,
     <<16922, 32450, 64534, 40147>>, <<22311, 15024, 20777, 42752>>, <<47844, 63483, 29087, 17394>>,
     <<7259, 55383, 59576, 48968>>, <<56021, 37912, 26993, 62297>>, <<16209, 35501, 40002, 28692>>,
     <<19523, 50104, 52366, 33304>>, <<38943, 47702, 28562, 57271>>, <<1964, 43717, 21557, 49324>>,
     <<24496, 34832, 14539, 48271>>, <<62019, 46421, 27838, 47731>>, <<25364, 40752, 15335, 40916>>,
     <<63146, 56899, 8049, 9333>>, <<19666, 42327, 46795, 49739>>, <<8636, 26997, 49513, 56946>>,
     <<51959, 36084, 3190, 33076>>, <<61756, 56674, 18962, 5535>>, <<54643, 53252, 6969, 3390>>,
     <<27114, 35801, 15277, 59398>>, <<22411, 44861, 30925, 25074>>, <<13080, 43322, 32616, 40393>>,
     <<11687, 20508, 48574, 21045>>, <<23405, 17548, 39857, 4608>>, <<869, 26314, 26354, 12724>>,
     <<47262, 20969, 58039, 14308>>, <<28742, 34644, 7323, 26831>>, <<10463, 10403, 23849, 14281>>,
     <<35838, 45685, 26948, 45237>>, <<10690, 16707, 49699, 20124>>, <<62717, 31055, 36098, 1679>>,
     <<1424, 61544, 57109, 58749>>, <<58541, 39085, 43917, 49161>>, <<16725, 45442, 33172, 41990>>,
     <<52806, 12327, 54527, 29759>>, <<54022, 8977, 26860, 2117>>, <<44545, 38985, 34496, 49977>>,
     <<52321, 38966, 22168, 3674>>, <<46772, 45586, 44861, 1306>>, <<28842, 61770, 28780, 57722>>,
     <<13639, 52169, 38366, 14912>>, <<25090, 47321, 59880, 22111>>, <<35401, 59928, 7643, 44084>>,
     <<21415, 48313, 10323, 52801>>, <<41642, 4901, 18081, 28474>>, <<54977, 26211, 19401, 10338>>,
     <<37631, 27342, 48275, 41073>>, <<31296, 12928, 43372, 59985>>, <<23064, 15247, 33126, 23076>>,
     <<8747, 19584, 53952, 58468>>, <<34206, 15693, 22714, 15014>>, <<47522, 33673, 52015, 58723>>,
     <<33698, 3256, 38162, 65252>>, <<52182, 37296, 25011, 3261>>, <<34873, 47864, 62380, 40713>>,
     <<24031, 947, 60881, 50360>>, <<63014, 38084, 52098, 60681>>, <<53446, 953, 34715, 54112>>,
     <<34136, 56055, 32834, 26199>>, <<51327, 56091, 25246, 12971>>, <<55161, 14549, 5766, 12257>>,
     <<58170, 22166, 10073, 60416>>, <<1307, 51247, 5963, 37081>>, <<43835, 24043, 51922, 23686>>,
     <<43126, 27600, 56731, 13787>>, <<16991, 9910, 33738, 5255>>, <<23868, 11072, 41078, 63059>>,
     <<29796, 59786, 29432, 54836>>, <<12034, 56638, 59982, 30785>>, <<16535, 32744, 16978, 30839>>,
     <<64496, 6868, 37419, 7522>>, <<51861, 39978, 35662, 59945>>, <<27082, 31905, 4179, 14338>>,
     <<27446, 18787, 22308, 31705>>, <<32636, 1892, 23719, 45618>>, <<47302, 16293, 2787, 26491>>,
     <<41143, 64884, 28729, 18392>>, <<8991, 45472, 56460, 57465>>, <<5814, 13122, 47049, 28279>>,
     <<52537, 43273, 55270, 32807>>, <<5159, 26715, 6602, 60637>>, <<40092, 27858, 36497, 46925>>,
     <<37313, 64377, 3597, 14932>>, <<32359, 54205, 47131, 46609>>, <<54166, 64525, 35318, 57873>>,
     <<17790, 44283, 45129, 60194>>, <<7649, 38811, 62821, 19925>>, <<23875, 27815, 22621, 10442>>,
     <<54231, 57990, 12824, 55673>>, <<12199, 48700, 53149, 5701>>, <<8119, 42977, 31646, 52400>>,
     <<11051, 8142, 55593, 49794>>, <<55386, 36919, 24164, 12557>>, <<52019, 27158, 4386, 32189>>,
     <<25449, 9717, 47864, 28877>>, <<17376, 53285, 19332, 29022>>, <<2062, 50549, 30497, 37447>>,
     <<5982, 58383, 22779, 55665>>, <<15736, 52278, 23469, 48353>>, <<33941, 41078, 33680, 12949>>,
     <<36745, 49363, 14698, 15187>>, <<25499, 43036, 35032, 34982>>, <<16303, 36252, 30556, 42881>>,
     <<60100, 3391, 20893, 10387>>, <<510, 12760, 51167, 32196>>, <<877, 32771, 14461, 55003>>,
     <<35846, 8695, 26658, 2711>>, <<22998, 43212, 31240, 9991>>, <<10986, 22314, 63558, 30048>>,
     <<7313, 310, 51709, 63939>>, <<51006, 56830, 4371, 34274>>, <<31213, 47522, 42659, 34783>>,
     <<54614, 53626, 56517, 63227>>, <<63271, 2553, 27432, 41927>>, <<21805, 27120, 17037, 52842>>,
     <<40123, 46270, 39570, 49686>>, <<20279, 44790, 51956, 7261>>, <<54083, 4368, 52695, 43416>>,
     <<15484, 7653, 46028, 7626>>, <<1155, 4519, 25182, 43993>>, <<24292, 7348, 3240, 7724>>,
     <<17208, 23400, 58653, 49148>>, <<54122, 8048, 54521, 41727>>, <<51946, 52409, 10160, 52060>>,
     <<16349, 44609, 25568, 4324>>, <<3711, 21586, 43209, 7904>>, <<32353, 12628, 22679, 3275>>,
     <<35714, 7179, 4101, 19573>>, <<50244, 53009, 63876, 1544>>, <<9526, 47015, 24623, 27469>>,
     <<13079, 34517, 41254, 63871>>, <<51625, 52592, 33650, 56211>>, <<55271, 23047, 21540, 20954>>,
     <<42213, 41229, 10341, 37124>>, <<36900, 60363, 63672, 59055>>, <<2067, 31795, 33011, 9507>>,
     <<12963, 4376, 43358, 16991>>, <<48484, 2913, 16512, 11038>>, <<38526, 15568, 61739, 7263>>,
     <<784, 35304, 32698, 47527>>, <<61723, 64435, 47678, 2113>>, <<15231, 50093, 3356, 54123>>,
     <<49074, 62681, 26807, 22979>>, <<19588, 30038, 18693, 53762>>, <<57512, 2858, 25142, 64131>>,
     <<34469, 47207, 6787, 15075>>, <<31072, 34856, 60303, 58765>>, <<811, 52127, 22305, 59159>>,
     <<4818, 9445, 56446, 5854>>, <<10726, 35714, 20960, 54421>>, <<11200, 19061, 2251, 2211>>,
     <<34296, 13734, 18482, 40229>>, <<19751, 39415, 38892, 6568>>, <<17466, 44480, 30450, 60688>>,
     <<35125, 32226, 30692, 26391>>, <<44921, 1966, 46652, 40300>>, <<10190, 27616, 1243, 23349>>,
     <<39871, 552, 55643, 61912>>, <<44593, 57723, 9697, 45923>>, <<9193, 17054, 38269, 47397>>,
     <<38158, 24491, 15486, 26661>>, <<10986, 13937, 49055, 22835>>, <<45778, 61251, 14642, 4140>>,
     <<3454, 53790, 51071, 51393>>, <<59999, 4736, 62606, 25159>>, <<6071, 18381, 62225, 44610>>,
     <<57345, 1550, 43514, 33678>>, <<44199, 20620, 23500, 64644>>, <<41898, 41092, 16132, 63843>>,
     <<63817, 63396, 59627, 54181>>, <<8839, 27614, 64833, 57196>>, <<49444, 29263, 2022, 40572>>,
     <<48967, 3570, 15706, 42676>>, <<10648, 13600, 39413, 37048>>, <<4556, 37108, 22677, 25917>>,
     <<853, 3489, 43816, 63697>>, <<30786, 52316, 11035, 13531>>, <<2231, 39734, 38060, 33792>>,
     <<49010, 54539, 34041, 28204>>, <<38000, 31224, 60168, 62864>>, <<26988, 46881, 33285, 2162>>,
     <<54408, 23497, 44086, 54695>>, <<27832, 34997, 31230, 38881>>, <<25236, 33296, 20996, 58621>>,
     <<15599, 30984, 5817, 14081>>, <<48551, 31270, 48659, 25942>>, <<64399, 34323, 5341, 43048>>,
     <<2210, 47032, 942, 23503>>, <<54216, 43294, 53298, 12608>>, <<34560, 416, 47207, 60478>>,
     <<58614, 49657, 45203, 56805>>, <<36360, 27628, 48139, 33656>>, <<40565, 20887, 49263, 64711>>,
     <<9319, 1518, 13554, 1272>>, <<51090, 30082, 54550, 9804>>, <<46049, 31652, 30022, 4924>>,
     <<41791, 4379, 23722, 46306>>, <<41533, 36374, 5187, 9566>>, <<18673, 10419, 17616, 33180>>,
     <<27857, 8955, 14763, 8269>>, <<23593, 4287, 9103, 13994>>, <<37038, 44048, 57439, 39866>>,
     <<40276, 46768, 4068, 10954>>, <<59535, 25656, 31247, 52683>>, <<50266, 8287, 327, 13833>>,
     <<51048, 60814, 46776, 51245>>, <<61989, 37389, 17405, 9132>>, <<9661, 44378, 35457, 31076>>,
     <<32444, 40175, 47361, 23211>>, <<15390, 59279, 42218, 29501>>, <<58126, 34257, 30073, 8868>>,
     <<24850, 15813, 57473, 65057>>, <<56454, 49424, 31079, 20070>>, <<35096, 38719, 47386, 47611>>,
     <<212, 61013, 51821, 35882>>, <<54528, 18285, 21013, 46517>>, <<64592, 26803, 58090, 27946>>,
     <<8285, 43280, 56611, 52101>>, <<38811, 24081, 13983, 30555>>, <<11208, 29300, 32101, 60119>>,
     <<38586, 33706, 10945, 40423>>, <<41509, 34576, 54176, 27605>>, <<700, 64473, 5779, 17383>>,
     <<35054, 52633, 9323, 25203>>, <<9035, 12315, 11580, 770>>, <<15457, 2397, 2353, 60607>>,
     <<49659, 60130, 21476, 17560>>, <<39928, 54638, 14802, 34832>>, <<61186, 24114, 30085, 10096>>,
     <<15233, 55355, 50853, 45677>>, <<29710, 15089, 29528, 42859>>, <<23044, 37217, 3105, 30775>>,
     <<45620, 49230, 59760, 31674>>, <<59606, 29825, 53010, 49956>>, <<15809, 43015, 4830, 5343>>,
     <<38470, 52485, 25189, 58373>>, <<51693, 23429, 65117, 57891>>, <<49204, 58928, 38164, 51712>>,
     <<42332, 45481, 59957, 59837>>, <<33624, 23980, 5144, 53068>>, <<50879, 59062, 31463, 7674>>,
     <<60894, 27264, 38276, 5528>>, <<35911, 32884, 42593, 2259>>, <<18932, 64296, 18726, 452>>,
     <<27679, 7834, 26087, 44216>>, <<17603, 61984, 57507, 41823>>, <<50242, 10135, 44054, 3454>>,
     <<43454, 54618, 4525, 11285>>, <<10685, 48684, 56914, 44173>>, <<41544, 28368, 5688, 64268>>,
     <<31721, 8157, 36770, 20568>>, <<27910, 51530, 8472, 53072>>, <<48665, 62137, 64694, 18917>>,
     <<28067, 4304, 56815, 59138>>, <<40372, 54809, 32743, 26736>>, <<41384, 59757, 54404, 60259>>,
     <<41600, 15869, 33528, 22806>>, <<14874, 2628, 55140, 19526>>, <<6693, 6283, 46418, 43618>>,
     <<64062, 43800, 50720, 48401>>, <<13266, 20302, 56592, 60057>>, <<14445, 14629, 25910, 52332>>,
     <<24702, 30110, 64299, 41448>>, <<37406, 47933, 31852, 24689>>, <<38586, 27400, 36742, 26927>>,
     <<45757, 10986, 60158, 53881>>, <<46860, 49886, 62379, 4268>>, <<11036, 4740, 45238, 56107>>,
     <<55252, 50395, 23485, 65426>>, <<16219, 33168, 41120, 9246>>, <<7033, 63045, 32352, 53166>>,
     <<41052, 12684, 37912, 7825>>, <<13440, 42609, 45107, 58325>>, <<30073, 38238, 64442, 42837>>,
     <<10103, 51702, 53446, 45271>>, <<10767, 8642, 63078, 11331>>, <<49798, 46268, 17798, 39868>>,
     <<15842, 26289, 51310, 53833>>, <<1430, 18318, 59401, 17093>>, <<28627, 24971, 12006, 44571>>,
     <<16136, 1850, 15965, 60023>>, <<3704, 18384, 7534, 29103>>, <<52511, 33199, 50427, 43774>>,
     <<9406, 29126, 1912, 51520>>, <<7618, 46815, 1130, 38433>>, <<53396, 20115, 38159, 27855>>,
     <<58055, 26372, 7843, 16391>>, <<21019, 63945, 8293, 30406>>, <<34411, 31275, 55153, 24145>>,
     <<31383, 30012, 35961, 13889>>, <<21210, 44057, 30794, 26084>>, <<2003, 4363, 31859, 63467>>,
     <<42603, 10047, 48324, 10679>>, <<5680, 11720, 23157, 21514>>, <<51264, 54128, 2646, 58590>>,
     <<54919, 21251, 64720, 23551>>, <<43966, 60678, 42467, 9608>>, <<30090, 25894, 63587, 27194>>,
     <<446, 31450, 59622, 8248>>, <<51636, 48839, 23492, 62474>>, <<56442, 27086, 2719, 49603>>,
     <<63807, 34108, 2779, 43620>>, <<48712, 47205, 36409, 54710>>, <<21043, 52360, 62215, 52101>>,
     <<33268, 35926, 26438, 58372>>, <<59111, 11055, 15889, 4498>>, <<28387, 44381, 31555, 13269>>,
     <<15339, 63498, 48964, 58206>>, <<12879, 15866, 10646, 14124>>, <<42505, 213, 34003, 10575>>,
     <<53171, 38663, 54240, 6088>>, <<54076, 53513, 2646, 62007>>, <<64225, 31431, 58720, 23875>>,
     <<51392, 4207, 3757, 17433>>, <<35259, 43011, 31530, 24766>>, <<27033, 38972, 4774, 21885>>,
     <<10732, 45705, 54524, 25425>>, <<56398, 16067, 2184, 36130>>, <<9362, 6284, 31761, 22183>>,
     <<18277, 632, 7416, 23056>>, <<36445, 23987, 45505, 2884>>, <<5567, 63074, 15273, 7863>>,
     <<29034, 10427, 41968, 40037>>, <<55284, 30215, 51503, 12529>>, <<40452, 36984, 13447, 40365>>,
     <<42513, 50583, 38363, 28825>>, <<39540, 51011, 5493, 35491>>, <<21357, 19520, 4463, 12857>>,
     <<21075, 39621, 34733, 38864>>, <<7962, 5749, 62089, 22979>>, <<35949, 30965, 24990, 33572>>,
     <<10993, 53221, 25583, 63405>>, <<16285, 8722, 58825, 19229>>, <<32258, 15686, 31543, 46623>>,
     <<64171, 30381, 44014, 59755>>, <<53241, 24025, 37483, 25297>>, <<15010, 30886, 8562, 56182>>,
     <<39298, 44005, 6600, 51303>>, <<13506, 4493, 61941, 34174>>, <<64115, 30390, 16403, 27776>>,
     <<39079, 53324, 41626, 56879>>, <<28063, 5296, 19831, 59262>>, <<19261, 44292, 35821, 18337>>,
     <<19614, 58852, 37661, 12849>>, <<47860, 60325, 17395, 15626>>, <<31034, 44960, 29555, 55590>>,
     <<39022, 42511, 59059, 39474>>, <<58143, 13391, 26211, 25062>>, <<61980, 48860, 17600, 18891>>,
     <<50423, 21152, 60254, 21507>>, <<44827, 39394, 32065, 1312>>, <<22823, 16544, 58808, 50141>>,
     <<1276, 20133, 64324, 27799>>, <<44398, 22655, 18351, 59302>>, <<56916, 11283, 31619, 33956>>,
     <<10767, 64527, 31536, 7772>>, <<33285, 18224, 2653, 35572>>, <<54214, 14786, 2173, 49273>>,
     <<2630, 31912, 28826, 11190>>, <<57922, 47979, 46298, 14046>>, <<24697, 45139, 7881, 886>>,
     <<1420, 53144, 56344, 17399>>, <<33815, 46103, 45073, 44737>>, <<60638, 56655, 61661, 25627>>,
     <<35895, 34600, 9033, 59442>>, <<54768, 48008, 5863, 59643>>, <<34230, 20552, 4056, 49908>>,
     <<32069, 43635, 20342, 2925>>, <<22882, 17029, 21458, 2068>>, <<16398, 11168, 6504, 59332>>,
     <<1918, 6585, 41975, 24576>>, <<7447, 21903, 24932, 780>>, <<31093, 12616, 49382, 50591>>,
     <<39543, 54002, 61243, 55363>>, <<26222, 47245, 34561, 57711>>, <<21874, 59342, 13352, 34408>>,
     <<60301, 33457, 21649, 54791>>, <<30658, 26023, 6891, 48724>>, <<18759, 56797, 28478, 40455>>,
     <<25229, 65123, 23673, 21894>>, <<8807, 15929, 54335, 63899>>, <<25470, 2157, 51084, 62754>>,
     <<60983, 58214, 40830, 40038>>, <<37591, 47943, 42159, 59448>>, <<8094, 43999, 56290, 47037>>,
     <<12879, 51818, 62133, 49617>>, <<23012, 41298, 21083, 6953>>, <<31889, 53514, 36213, 29710>>,
     <<52348, 21306, 32714, 38360>>, <<4710, 64503, 29574, 45531>>, <<26778, 26298, 18129, 50109>>,
     <<19414, 29105, 9397, 28698>>, <<11331, 64778, 40622, 49229>>, <<22548, 12567, 58593, 25941>>,
     <<33624, 50619, 4680, 44067>>, <<43766, 30653, 32995, 2757>>, <<64665, 29223, 42224, 32655>>,
     <<43080, 52317, 40112, 57680>>, <<25610, 28958, 45284, 39745>>, <<25852, 49056, 7626, 14712>>,
     <<38922, 43823, 65387, 51076>>, <<14684, 26448, 43586, 58974>>, <<10367, 59980, 38549, 62452>>,
     <<38166, 13847, 18934, 17034>>, <<51575, 54674, 39327, 8596>>, <<50257, 26329, 63123, 24568>>,
     <<42997, 930, 36675, 7337>>, <<20947, 41923, 20926, 4332>>, <<62841, 57472, 5672, 38633>>,
     <<58805, 59704, 23328, 10276>>, <<64442, 7754, 22960, 50700>>, <<43230, 25944, 10666, 45575>>,
     <<57822, 1165, 51083, 14382>>, <<29779, 23190, 52346, 57303>>, <<32343, 41371, 29534, 61499>>,
     <<14752, 2618, 12736, 9670>>
  >>

\* seedrand: 48271 * x mod (2^31 - 1), by Schrage's method
seedrand(x) ==
  LET hi == x \div 44488
      lo == x % 44488
      r == 48271 * lo - 3399 * hi
  IN IF r < 0 THEN r + Int32Max ELSE r

\* rngSource.Seed: the seed reduced to 1 .. 2^31 - 2
SeedValue(seed) ==
  LET s == seed % Int32Max
  IN IF s = 0 THEN 89482311 ELSE s

\* seedrand applied n times to x (x is positive)
RECURSIVE SeedrandTimes(_, _)
SeedrandTimes(x, n) ==
  IF x <= 0 \/ n = 0 THEN x
  ELSE IF n = 1 THEN seedrand(x)
  ELSE SeedrandTimes(SeedrandTimes(x, n \div 2), n - (n \div 2))

\* the exclusive or and the sum mod 2^64 of two 64-bit words
Xor64(a, b) == [i \in 1..4 |-> Xor16(a[i], b[i])]

Add64(a, b) ==
  LET s0 == a[4] + b[4]
      s1 == a[3] + b[3] + (s0 \div 65536)
      s2 == a[2] + b[2] + (s1 \div 65536)
      s3 == a[1] + b[1] + (s2 \div 65536)
  IN <<s3 % 65536, s2 % 65536, s1 % 65536, s0 % 65536>>

\* rngSource.Seed, the word it stores in vec[i]:
\* int64(x1) << 40 ^ int64(x2) << 20 ^ int64(x3) ^ rngCooked[i], x1, x2, x3
\* being the values seedrand gives at the turn i of the loop that starts at -20
SeedVec(seed, i) ==
  LET x1 == SeedrandTimes(SeedValue(seed), 20 + 3 * i + 1)
      x2 == seedrand(x1)
      x3 == seedrand(x2)
      u1 == <<(x1 \div 256) % 65536, (x1 % 256) * 256, 0, 0>>
      u2 == <<x2 \div 268435456, (x2 \div 4096) % 65536, (x2 % 4096) * 16, 0>>
      u3 == <<0, 0, x3 \div 65536, x3 % 65536>>
  IN Xor64(Xor64(Xor64(u1, u2), u3), rngCooked[i + 1])

\* rngSource.Uint64, the word its call number k (from 0) after Seed(seed)
\* returns: vec[feed] + vec[tap], feed and tap stepping down from 334 and 0;
\* for k < 0, the word the seeding left where call number k + 607 reads vec[feed]
RECURSIVE Uint64At(_, _)
Uint64At(seed, k) ==
  IF k < 0 THEN SeedVec(seed, (rngLen - rngTap - 1 - k) % rngLen)
  ELSE Add64(Uint64At(seed, k - rngLen), Uint64At(seed, k - rngTap))

\* the value rand.Int31() returns at its call number pos (from 0) after
\* rand.Seed(seed): Int63() >> 32, Int63 being Uint64 without its top bit
Int31At(seed, pos) ==
  LET u == Uint64At(seed, pos)
  IN (u[1] % 32768) * 65536 + u[2]

\* Int31At of the seeds a clock of the specifications can give and of the
\* first draws, computed once
FirstDraws ==
  [s \in {1} \cup (StartTime..(StartTime + MaxTicks)) |->
     [k \in 0..3 |-> Int31At(s, k)]]

\* Int31At, looked up where it was computed before
StreamAt(seed, pos) ==
  IF seed \in DOMAIN FirstDraws /\ pos \in 0..3
  THEN FirstDraws[seed][pos]
  ELSE Int31At(seed, pos)

\* rand.Seed(seed): the generator restarts at the head of the seed's stream
RandSeed(seed) == [seed |-> seed, pos |-> 0]

\* a draw that skips a value of the stream
RandInt31Skips(g) == StreamAt(g.seed, g.pos + 1)

\* rand.Int31(): the value drawn from the generator g, non-negative, 31 bits
RandInt31(g) == StreamAt(g.seed, g.pos)

\* the generator after a draw
RandAdvance(g) == [g EXCEPT !.pos = g.pos + 1]

\* the generator of a process that never called rand.Seed: that of seed 1
\* (before Go 1.20; orignalSign seeds it before it draws)
RandInitial == [seed |-> 1, pos |-> 0]

(***************************************************************************)
(* The credential and the client.                                          *)
(***************************************************************************)
UserIDMaxLen == 110

\* the zero AppSign
ZeroAppSign ==
  [appID |-> 0, secretID |-> <<>>, secretKey |-> <<>>, expired |-> 0, userID |-> <<>>]

\* NewAppSign with the limit itself refused
NewAppSignAtLimit(appID, secretID, secretKey, expired, userID) ==
  IF Len(userID) >= UserIDMaxLen
  THEN [as |-> ZeroAppSign, err |-> "ErrUserIDTooLong"]
  ELSE [as |-> [appID |-> appID, secretID |-> secretID, secretKey |-> secretKey,
                expired |-> expired, userID |-> userID],
        err |-> "nil"]

\* NewAppSign: the credential and the error returned
NewAppSign(appID, secretID, secretKey, expired, userID) ==
  IF Len(userID) > UserIDMaxLen
  THEN [as |-> ZeroAppSign, err |-> "ErrUserIDTooLong"]
  ELSE [as |-> [appID |-> appID, secretID |-> secretID, secretKey |-> secretKey,
                expired |-> expired, userID |-> userID],
        err |-> "nil"]

\* Init: the client of a credential and a host
YoutuInit(appSign, host) == [appSign |-> appSign, host |-> host]

\* (y *Youtu) appID
appID(yy) == Itoa(yy.appSign.appID)

(***************************************************************************)
(* The signer.                                                             *)
(***************************************************************************)
\* the Sprintf with the nonce before the time
SignFormatNonceFirst(as, now, rnd) ==
  <<97, 61>> \o Itoa(as.appID)
  \o <<38, 107, 61>> \o as.secretID
  \o <<38, 101, 61>> \o Itoa(as.expired)
  \o <<38, 114, 61>> \o Itoa(rnd)
  \o <<38, 116, 61>> \o Itoa(now)
  \o <<38, 117, 61>> \o as.userID
  \o <<38, 102, 61>>

\* the Sprintf of orignalSign: "a=%d&k=%s&e=%d&t=%d&r=%d&u=%s&f="
SignFormat(as, now, rnd) ==
  <<97, 61>> \o Itoa(as.appID)
  \o <<38, 107, 61>> \o as.secretID
  \o <<38, 101, 61>> \o Itoa(as.expired)
  \o <<38, 116, 61>> \o Itoa(now)
  \o <<38, 114, 61>> \o Itoa(rnd)
  \o <<38, 117, 61>> \o as.userID
  \o <<38, 102, 61>>

\* sign with the string before the digest
SignTokenStringFirst(as, origSign) ==
  EncodeToString(origSign \o HmacSha1(as.secretKey, origSign))

\* sign, from the string orignalSign returned: the digest, then the string, in base64
SignToken(as, origSign) ==
  EncodeToString(HmacSha1(as.secretKey, origSign) \o origSign)

(***************************************************************************)
(* Go values.  A string of a JSON payload is a TLA+ string; a float32 is   *)
(* the JSON number it was read from; a slice is [nil, elems]; a struct is  *)
(* a function from its field names.                                        *)
(***************************************************************************)
NilSlice == [nil |-> TRUE, elems |-> <<>>]

Slice(s) == [nil |-> FALSE, elems |-> s]

IsStruct(type) ==
  type \notin {"string", "int", "int32", "float32", "bool", "DetectMode",
               "[]string", "[]Face"}

\* the element type of a slice type
ElemType(type) == IF type = "[]string" THEN "string" ELSE "Face"

(***************************************************************************)
(* The struct types of the protocol: go is the field's name, tag the name  *)
(* in its json tag ("" when it has none).                                  *)
(***************************************************************************)
detectFaceReq ==
  << [go |-> "AppID", exported |-> TRUE, tag |-> "app_id", omitempty |-> FALSE, type |-> "string"],
     [go |-> "Image", exported |-> TRUE, tag |-> "image", omitempty |-> FALSE, type |-> "string"],
     [go |-> "Mode", exported |-> TRUE, tag |-> "mode", omitempty |-> TRUE, type |-> "DetectMode"] >>

Face ==
  << [go |-> "FaceID", exported |-> TRUE, tag |-> "face_id", omitempty |-> FALSE, type |-> "string"],
     [go |-> "X", exported |-> TRUE, tag |-> "x", omitempty |-> FALSE, type |-> "int32"],
     [go |-> "Y", exported |-> TRUE, tag |-> "y", omitempty |-> FALSE, type |-> "int32"],
     [go |-> "Width", exported |-> TRUE, tag |-> "width", omitempty |-> FALSE, type |-> "float32"],
     [go |-> "Height", exported |-> TRUE, tag |-> "height", omitempty |-> FALSE, type |-> "float32"],
     [go |-> "Gender", exported |-> TRUE, tag |-> "gender", omitempty |-> FALSE, type |-> "int32"],
     [go |-> "Age", exported |-> TRUE, tag |-> "age", omitempty |-> FALSE, type |-> "int32"],
     [go |-> "Expression", exported |-> TRUE, tag |-> "expression", omitempty |-> FALSE, type |-> "int32"],
     [go |-> "Glass", exported |-> TRUE, tag |-> "glass", omitempty |-> FALSE, type |-> "bool"],
     [go |-> "Pitch", exported |-> TRUE, tag |-> "pitch", omitempty |-> FALSE, type |-> "int32"],
     [go |-> "Yaw", exported |-> TRUE, tag |-> "yaw", omitempty |-> FALSE, type |-> "int32"],
     [go |-> "Roll", exported |-> TRUE, tag |-> "roll", omitempty |-> FALSE, type |-> "int32"] >>

DetectFaceRsp ==
  << [go |-> "SessionID", exported |-> TRUE, tag |-> "session_id", omitempty |-> FALSE, type |-> "string"],
     [go |-> "ImageID", exported |-> TRUE, tag |-> "image_id", omitempty |-> FALSE, type |-> "string"],
     [go |-> "ImageWidth", exported |-> TRUE, tag |-> "image_width", omitempty |-> FALSE, type |-> "int32"],
     [go |-> "ImageHeight", exported |-> TRUE, tag |-> "image_height", omitempty |-> FALSE, type |-> "int32"],
     [go |-> "Face", exported |-> TRUE, tag |-> "face", omitempty |-> FALSE, type |-> "[]Face"],
     [go |-> "ErrorCode", exported |-> TRUE, tag |-> "errorcode", omitempty |-> FALSE, type |-> "int"],
     [go |-> "ErrorMsg", exported |-> TRUE, tag |-> "errormsg", omitempty |-> FALSE, type |-> "string"] >>

faceCompareReq ==
  << [go |-> "AppID", exported |-> TRUE, tag |-> "app_id", omitempty |-> FALSE, type |-> "string"],
     [go |-> "ImageA", exported |-> TRUE, tag |-> "imageA", omitempty |-> FALSE, type |-> "string"],
     [go |-> "ImageB", exported |-> TRUE, tag |-> "imageB", omitempty |-> FALSE, type |-> "string"] >>

FaceCompareRsp ==
  << [go |-> "EyebrowSim", exported |-> TRUE, tag |-> "eyebrow_sim", omitempty |-> FALSE, type |-> "float32"],
     [go |-> "EyeSim", exported |-> TRUE, tag |-> "eye_sim", omitempty |-> FALSE, type |-> "float32"],
     [go |-> "NoseSim", exported |-> TRUE, tag |-> "nose_sim", omitempty |-> FALSE, type |-> "float32"],
     [go |-> "MouthSim", exported |-> TRUE, tag |-> "mouth_sim", omitempty |-> FALSE, type |-> "float32"],
     [go |-> "Similarity", exported |-> TRUE, tag |-> "similarity", omitempty |-> FALSE, type |-> "float32"],
     [go |-> "ErrorCode", exported |-> TRUE, tag |-> "errorcode", omitempty |-> FALSE, type |-> "int32"],
     [go |-> "ErrorMsg", exported |-> TRUE, tag |-> "errormsg", omitempty |-> FALSE, type |-> "string"] >>

faceVerifyReq ==
  << [go |-> "AppID", exported |-> TRUE, tag |-> "app_id", omitempty |-> FALSE, type |-> "string"],
     [go |-> "Image", exported |-> TRUE, tag |-> "image", omitempty |-> FALSE, type |-> "string"],
     [go |-> "PersonID", exported |-> TRUE, tag |-> "person_id", omitempty |-> FALSE, type |-> "string"] >>

FaceVerifyRsp ==
  << [go |-> "Ismatch", exported |-> TRUE, tag |-> "ismatch", omitempty |-> FALSE, type |-> "bool"],
     [go |-> "Confidence", exported |-> TRUE, tag |-> "confidence", omitempty |-> FALSE, type |-> "float32"],
     [go |-> "SessionID", exported |-> TRUE, tag |-> "session_id", omitempty |-> FALSE, type |-> "string"],
     [go |-> "ErrorCode", exported |-> TRUE, tag |-> "errorcode", omitempty |-> FALSE, type |-> "int32"],
     [go |-> "ErrorMsg", exported |-> TRUE, tag |-> "errormsg", omitempty |-> FALSE, type |-> "string"] >>

faceIdentifyReq ==
  << [go |-> "AppID", exported |-> TRUE, tag |-> "app_id", omitempty |-> FALSE, type |-> "string"],
     [go |-> "GroupID", exported |-> TRUE, tag |-> "group_id", omitempty |-> FALSE, type |-> "string"],
     [go |-> "Image", exported |-> TRUE, tag |-> "image", omitempty |-> FALSE, type |-> "string"] >>

FaceIdentifyRsp ==
  << [go |-> "SessionID", exported |-> TRUE, tag |-> "session_id", omitempty |-> FALSE, type |-> "string"],
     [go |-> "PersonID", exported |-> TRUE, tag |-> "person_id", omitempty |-> FALSE, type |-> "string"],
     [go |-> "FaceID", exported |-> TRUE, tag |-> "face_id", omitempty |-> FALSE, type |-> "string"],
     [go |-> "Confidence", exported |-> TRUE, tag |-> "confidence", omitempty |-> FALSE, type |-> "float32"],
     [go |-> "ErrorCode", exported |-> TRUE, tag |-> "errorcode", omitempty |-> FALSE, type |-> "int"],
     [go |-> "ErrorMsg", exported |-> TRUE, tag |-> "errormsg", omitempty |-> FALSE, type |-> "string"] >>

newPersonReq ==
  << [go |-> "AppID", exported |-> TRUE, tag |-> "app_id", omitempty |-> FALSE, type |-> "string"],
     [go |-> "Image", exported |-> TRUE, tag |-> "image", omitempty |-> FALSE, type |-> "string"],
     [go |-> "PersonID", exported |-> TRUE, tag |-> "person_id", omitempty |-> FALSE, type |-> "string"],
     [go |-> "GroupIDs", exported |-> TRUE, tag |-> "group_ids", omitempty |-> FALSE, type |-> "[]string"],
     [go |-> "PersonName", exported |-> TRUE, tag |-> "person_name", omitempty |-> TRUE, type |-> "string"],
     [go |-> "Tag", exported |-> TRUE, tag |-> "tag", omitempty |-> TRUE, type |-> "string"] >>

NewPersonRsp ==
  << [go |-> "SessionID", exported |-> TRUE, tag |-> "session_id", omitempty |-> FALSE, type |-> "string"],
     [go |-> "SucGroup", exported |-> TRUE, tag |-> "suc_group", omitempty |-> FALSE, type |-> "int"],
     [go |-> "SucFace", exported |-> TRUE, tag |-> "suc_face", omitempty |-> FALSE, type |-> "int"],
     [go |-> "PersonName", exported |-> TRUE, tag |-> "person_name", omitempty |-> FALSE, type |-> "string"],
     [go |-> "PersonID", exported |-> TRUE, tag |-> "person_id", omitempty |-> FALSE, type |-> "string"],
     [go |-> "FaceID", exported |-> TRUE, tag |-> "face_id", omitempty |-> FALSE, type |-> "string"],
     [go |-> "ErrorCode", exported |-> TRUE, tag |-> "errorcode", omitempty |-> FALSE, type |-> "int"],
     [go |-> "ErrorMsg", exported |-> TRUE, tag |-> "errormsg", omitempty |-> FALSE, type |-> "string"] >>

delPersonReq ==
  << [go |-> "AppID", exported |-> TRUE, tag |-> "app_id", omitempty |-> FALSE, type |-> "string"],
     [go |-> "PersonID", exported |-> TRUE, tag |-> "person_id", omitempty |-> FALSE, type |-> "string"] >>

DelPersonRsp ==
  << [go |-> "SessionID", exported |-> TRUE, tag |-> "session_id", omitempty |-> FALSE, type |-> "string"],
     [go |-> "Deleted", exported |-> TRUE, tag |-> "deleted", omitempty |-> FALSE, type |-> "int"],
     [go |-> "ErrorCode", exported |-> TRUE, tag |-> "errorcode", omitempty |-> FALSE, type |-> "int"],
     [go |-> "ErrorMsg", exported |-> TRUE, tag |-> "errormsg", omitempty |-> FALSE, type |-> "string"] >>

addFaceReq ==
  << [go |-> "AppID", exported |-> TRUE, tag |-> "app_id", omitempty |-> FALSE, type |-> "string"],
     [go |-> "PersonID", exported |-> TRUE, tag |-> "person_id", omitempty |-> FALSE, type |-> "string"],
     [go |-> "Images", exported |-> TRUE, tag |-> "images", omitempty |-> FALSE, type |-> "[]string"],
     [go |-> "Tag", exported |-> TRUE, tag |-> "tag", omitempty |-> TRUE, type |-> "string"] >>

AddFaceRsp ==
  << [go |-> "SessionID", exported |-> TRUE, tag |-> "session_id", omitempty |-> FALSE, type |-> "string"],
     [go |-> "Added", exported |-> TRUE, tag |-> "added", omitempty |-> FALSE, type |-> "int"],
     [go |-> "FaceIDs", exported |-> TRUE, tag |-> "face_ids", omitempty |-> FALSE, type |-> "[]string"],
     [go |-> "ErrorCode", exported |-> TRUE, tag |-> "errorcode", omitempty |-> FALSE, type |-> "int"],
     [go |-> "ErrorMsg", exported |-> TRUE, tag |-> "errormsg", omitempty |-> FALSE, type |-> "string"] >>

delFaceReq ==
  << [go |-> "AppID", exported |-> TRUE, tag |-> "app_id", omitempty |-> FALSE, type |-> "string"],
     [go |-> "PersonID", exported |-> TRUE, tag |-> "person_id", omitempty |-> FALSE, type |-> "string"],
     [go |-> "FaceIDs", exported |-> TRUE, tag |-> "face_ids", omitempty |-> FALSE, type |-> "[]string"] >>

DelFaceRsp ==
  << [go |-> "SessonID", exported |-> TRUE, tag |-> "session_id", omitempty |-> FALSE, type |-> "string"],
     [go |-> "Deleted", exported |-> TRUE, tag |-> "deleted", omitempty |-> FALSE, type |-> "int32"],
     [go |-> "ErrorCode", exported |-> TRUE, tag |-> "errorcode", omitempty |-> FALSE, type |-> "int32"],
     [go |-> "ErrorMsg", exported |-> TRUE, tag |-> "errormsg", omitempty |-> FALSE, type |-> "string"] >>

setInfoReq ==
  << [go |-> "AppID", exported |-> TRUE, tag |-> "app_id", omitempty |-> FALSE, type |-> "string"],
     [go |-> "PersonID", exported |-> TRUE, tag |-> "person_id", omitempty |-> FALSE, type |-> "string"],
     [go |-> "PersonName", exported |-> TRUE, tag |-> "person_name", omitempty |-> TRUE, type |-> "string"],
     [go |-> "Tag", exported |-> TRUE, tag |-> "tag", omitempty |-> TRUE, type |-> "string"] >>

SetInfoRsp ==
  << [go |-> "sessionID", exported |-> FALSE, tag |-> "session_id", omitempty |-> FALSE, type |-> "string"],
     [go |-> "personID", exported |-> FALSE, tag |-> "person_id", omitempty |-> FALSE, type |-> "string"],
     [go |-> "errorcode", exported |-> FALSE, tag |-> "errorcode", omitempty |-> FALSE, type |-> "int32"],
     [go |-> "errormsg", exported |-> FALSE, tag |-> "errormsg", omitempty |-> FALSE, type |-> "string"] >>

getInfoReq ==
  << [go |-> "AppID", exported |-> TRUE, tag |-> "app_id", omitempty |-> FALSE, type |-> "string"],
     [go |-> "PersonID", exported |-> TRUE, tag |-> "person_id", omitempty |-> FALSE, type |-> "string"] >>

GetInfoRsp ==
  << [go |-> "PersonName", exported |-> TRUE, tag |-> "person_name", omitempty |-> FALSE, type |-> "string"],
     [go |-> "PersonID", exported |-> TRUE, tag |-> "person_id", omitempty |-> FALSE, type |-> "string"],
     [go |-> "GroupIDs", exported |-> TRUE, tag |-> "group_ids", omitempty |-> FALSE, type |-> "[]string"],
     [go |-> "FaceIDs", exported |-> TRUE, tag |-> "face_ids", omitempty |-> FALSE, type |-> "[]string"],
     [go |-> "SessionID", exported |-> TRUE, tag |-> "", omitempty |-> FALSE, type |-> "string"],
     [go |-> "ErrorCode", exported |-> TRUE, tag |-> "errorcode", omitempty |-> FALSE, type |-> "int"],
     [go |-> "ErrorMsg", exported |-> TRUE, tag |-> "errormsg", omitempty |-> FALSE, type |-> "string"] >>

getGroupIDsReq ==
  << [go |-> "AppID", exported |-> TRUE, tag |-> "app_id", omitempty |-> FALSE, type |-> "string"] >>

GetGroupIDsRsp ==
  << [go |-> "GroupIDs", exported |-> TRUE, tag |-> "group_ids", omitempty |-> FALSE, type |-> "[]string"],
     [go |-> "ErrorCode", exported |-> TRUE, tag |-> "errorcode", omitempty |-> FALSE, type |-> "int32"],
     [go |-> "ErrorMsg", exported |-> TRUE, tag |-> "errormsg", omitempty |-> FALSE, type |-> "string"] >>

getPersonIDsReq ==
  << [go |-> "AppID", exported |-> TRUE, tag |-> "app_id", omitempty |-> FALSE, type |-> "string"],
     [go |-> "GroupID", exported |-> TRUE, tag |-> "group_id", omitempty |-> FALSE, type |-> "string"] >>

GetPersonIDsRsp ==
  << [go |-> "PersonIDs", exported |-> TRUE, tag |-> "person_ids", omitempty |-> FALSE, type |-> "[]string"],
     [go |-> "ErrorCode", exported |-> TRUE, tag |-> "errorcode", omitempty |-> FALSE, type |-> "int32"],
     [go |-> "ErrorMsg", exported |-> TRUE, tag |-> "errormsg", omitempty |-> FALSE, type |-> "string"] >>

getFaceIDsReq ==
  << [go |-> "AppID", exported |-> TRUE, tag |-> "app_id", omitempty |-> FALSE, type |-> "string"],
     [go |-> "PersonID", exported |-> TRUE, tag |-> "person_id", omitempty |-> FALSE, type |-> "string"] >>

GetFaceIDsRsp ==
  << [go |-> "FaceIDs", exported |-> TRUE, tag |-> "face_ids", omitempty |-> FALSE, type |-> "[]string"],
     [go |-> "ErrorCode", exported |-> TRUE, tag |-> "errorcode", omitempty |-> FALSE, type |-> "int32"],
     [go |-> "ErrorMsg", exported |-> TRUE, tag |-> "errormsg", omitempty |-> FALSE, type |-> "string"] >>

getFaceInfoReq ==
  << [go |-> "AppID", exported |-> TRUE, tag |-> "app_id", omitempty |-> FALSE, type |-> "string"],
     [go |-> "FaceID", exported |-> TRUE, tag |-> "face_id", omitempty |-> FALSE, type |-> "string"] >>

GetFaceInfoRsp ==
  << [go |-> "FaceInfo", exported |-> TRUE, tag |-> "face_info", omitempty |-> FALSE, type |-> "Face"],
     [go |-> "ErrorCode", exported |-> TRUE, tag |-> "errorcode", omitempty |-> FALSE, type |-> "int32"],
     [go |-> "ErrorMsg", exported |-> TRUE, tag |-> "errormsg", omitempty |-> FALSE, type |-> "string"] >>

\* the bytes of the names of the fields and of their json tags
Names ==
  [
     AppID |-> <<65, 112, 112, 73, 68>>,
     app_id |-> <<97, 112, 112, 95, 105, 100>>,
     Image |-> <<73, 109, 97, 103, 101>>,
     image |-> <<105, 109, 97, 103, 101>>,
     Mode |-> <<77, 111, 100, 101>>,
     mode |-> <<109, 111, 100, 101>>,
     FaceID |-> <<70, 97, 99, 101, 73, 68>>,
     face_id |-> <<102, 97, 99, 101, 95, 105, 100>>,
     X |-> <<88>>,
     x |-> <<120>>,
     Y |-> <<89>>,
     y |-> <<121>>,
     Width |-> <<87, 105, 100, 116, 104>>,
     width |-> <<119, 105, 100, 116, 104>>,
     Height |-> <<72, 101, 105, 103, 104, 116>>,
     height |-> <<104, 101, 105, 103, 104, 116>>,
     Gender |-> <<71, 101, 110, 100, 101, 114>>,
     gender |-> <<103, 101, 110, 100, 101, 114>>,
     Age |-> <<65, 103, 101>>,
     age |-> <<97, 103, 101>>,
     Expression |-> <<69, 120, 112, 114, 101, 115, 115, 105, 111, 110>>,
     expression |-> <<101, 120, 112, 114, 101, 115, 115, 105, 111, 110>>,
     Glass |-> <<71, 108, 97, 115, 115>>,
     glass |-> <<103, 108, 97, 115, 115>>,
     Pitch |-> <<80, 105, 116, 99, 104>>,
     pitch |-> <<112, 105, 116, 99, 104>>,
     Yaw |-> <<89, 97, 119>>,
     yaw |-> <<121, 97, 119>>,
     Roll |-> <<82, 111, 108, 108>>,
     roll |-> <<114, 111, 108, 108>>,
     SessionID |-> <<83, 101, 115, 115, 105, 111, 110, 73, 68>>,
     session_id |-> <<115, 101, 115, 115, 105, 111, 110, 95, 105, 100>>,
     ImageID |-> <<73, 109, 97, 103, 101, 73, 68>>,
     image_id |-> <<105, 109, 97, 103, 101, 95, 105, 100>>,
     ImageWidth |-> <<73, 109, 97, 103, 101, 87, 105, 100, 116, 104>>,
     image_width |-> <<105, 109, 97, 103, 101, 95, 119, 105, 100, 116, 104>>,
     ImageHeight |-> <<73, 109, 97, 103, 101, 72, 101, 105, 103, 104, 116>>,
     image_height |-> <<105, 109, 97, 103, 101, 95, 104, 101, 105, 103, 104, 116>>,
     Face |-> <<70, 97, 99, 101>>,
     face |-> <<102, 97, 99, 101>>,
     ErrorCode |-> <<69, 114, 114, 111, 114, 67, 111, 100, 101>>,
     errorcode |-> <<101, 114, 114, 111, 114, 99, 111, 100, 101>>,
     ErrorMsg |-> <<69, 114, 114, 111, 114, 77, 115, 103>>,
     errormsg |-> <<101, 114, 114, 111, 114, 109, 115, 103>>,
     ImageA |-> <<73, 109, 97, 103, 101, 65>>,
     imageA |-> <<105, 109, 97, 103, 101, 65>>,
     ImageB |-> <<73, 109, 97, 103, 101, 66>>,
     imageB |-> <<105, 109, 97, 103, 101, 66>>,
     EyebrowSim |-> <<69, 121, 101, 98, 114, 111, 119, 83, 105, 109>>,
     eyebrow_sim |-> <<101, 121, 101, 98, 114, 111, 119, 95, 115, 105, 109>>,
     EyeSim |-> <<69, 121, 101, 83, 105, 109>>,
     eye_sim |-> <<101, 121, 101, 95, 115, 105, 109>>,
     NoseSim |-> <<78, 111, 115, 101, 83, 105, 109>>,
     nose_sim |-> <<110, 111, 115, 101, 95, 115, 105, 109>>,
     MouthSim |-> <<77, 111, 117, 116, 104, 83, 105, 109>>,
     mouth_sim |-> <<109, 111, 117, 116, 104, 95, 115, 105, 109>>,
     Similarity |-> <<83, 105, 109, 105, 108, 97, 114, 105, 116, 121>>,
     similarity |-> <<115, 105, 109, 105, 108, 97, 114, 105, 116, 121>>,
     PersonID |-> <<80, 101, 114, 115, 111, 110, 73, 68>>,
     person_id |-> <<112, 101, 114, 115, 111, 110, 95, 105, 100>>,
     Ismatch |-> <<73, 115, 109, 97, 116, 99, 104>>,
     ismatch |-> <<105, 115, 109, 97, 116, 99, 104>>,
     Confidence |-> <<67, 111, 110, 102, 105, 100, 101, 110, 99, 101>>,
     confidence |-> <<99, 111, 110, 102, 105, 100, 101, 110, 99, 101>>,
     GroupID |-> <<71, 114, 111, 117, 112, 73, 68>>,
     group_id |-> <<103, 114, 111, 117, 112, 95, 105, 100>>,
     GroupIDs |-> <<71, 114, 111, 117, 112, 73, 68, 115>>,
     group_ids |-> <<103, 114, 111, 117, 112, 95, 105, 100, 115>>,
     PersonName |-> <<80, 101, 114, 115, 111, 110, 78, 97, 109, 101>>,
     person_name |-> <<112, 101, 114, 115, 111, 110, 95, 110, 97, 109, 101>>,
     Tag |-> <<84, 97, 103>>,
     tag |-> <<116, 97, 103>>,
     SucGroup |-> <<83, 117, 99, 71, 114, 111, 117, 112>>,
     suc_group |-> <<115, 117, 99, 95, 103, 114, 111, 117, 112>>,
     SucFace |-> <<83, 117, 99, 70, 97, 99, 101>>,
     suc_face |-> <<115, 117, 99, 95, 102, 97, 99, 101>>,
     Deleted |-> <<68, 101, 108, 101, 116, 101, 100>>,
     deleted |-> <<100, 101, 108, 101, 116, 101, 100>>,
     Images |-> <<73, 109, 97, 103, 101, 115>>,
     images |-> <<105, 109, 97, 103, 101, 115>>,
     Added |-> <<65, 100, 100, 101, 100>>,
     added |-> <<97, 100, 100, 101, 100>>,
     FaceIDs |-> <<70, 97, 99, 101, 73, 68, 115>>,
     face_ids |-> <<102, 97, 99, 101, 95, 105, 100, 115>>,
     SessonID |-> <<83, 101, 115, 115, 111, 110, 73, 68>>,
     sessionID |-> <<115, 101, 115, 115, 105, 111, 110, 73, 68>>,
     personID |-> <<112, 101, 114, 115, 111, 110, 73, 68>>,
     PersonIDs |-> <<80, 101, 114, 115, 111, 110, 73, 68, 115>>,
     person_ids |-> <<112, 101, 114, 115, 111, 110, 95, 105, 100, 115>>,
     FaceInfo |-> <<70, 97, 99, 101, 73, 110, 102, 111>>,
     face_info |-> <<102, 97, 99, 101, 95, 105, 110, 102, 111>>
  ]

\* the fields of a struct type, in declaration order
StructFields(type) ==
  CASE type = "detectFaceReq" -> detectFaceReq
    [] type = "Face" -> Face
    [] type = "DetectFaceRsp" -> DetectFaceRsp
    [] type = "faceCompareReq" -> faceCompareReq
    [] type = "FaceCompareRsp" -> FaceCompareRsp
    [] type = "faceVerifyReq" -> faceVerifyReq
    [] type = "FaceVerifyRsp" -> FaceVerifyRsp
    [] type = "faceIdentifyReq" -> faceIdentifyReq
    [] type = "FaceIdentifyRsp" -> FaceIdentifyRsp
    [] type = "newPersonReq" -> newPersonReq
    [] type = "NewPersonRsp" -> NewPersonRsp
    [] type = "delPersonReq" -> delPersonReq
    [] type = "DelPersonRsp" -> DelPersonRsp
    [] type = "addFaceReq" -> addFaceReq
    [] type = "AddFaceRsp" -> AddFaceRsp
    [] type = "delFaceReq" -> delFaceReq
    [] type = "DelFaceRsp" -> DelFaceRsp
    [] type = "setInfoReq" -> setInfoReq
    [] type = "SetInfoRsp" -> SetInfoRsp
    [] type = "getInfoReq" -> getInfoReq
    [] type = "GetInfoRsp" -> GetInfoRsp
    [] type = "getGroupIDsReq" -> getGroupIDsReq
    [] type = "GetGroupIDsRsp" -> GetGroupIDsRsp
    [] type = "getPersonIDsReq" -> getPersonIDsReq
    [] type = "GetPersonIDsRsp" -> GetPersonIDsRsp
    [] type = "getFaceIDsReq" -> getFaceIDsReq
    [] type = "GetFaceIDsRsp" -> GetFaceIDsRsp
    [] type = "getFaceInfoReq" -> getFaceInfoReq
    [] type = "GetFaceInfoRsp" -> GetFaceInfoRsp

FieldIndex(type, go) ==
  CHOOSE i \in 1..Len(StructFields(type)) : StructFields(type)[i].go = go

\* the zero value of a type
RECURSIVE GoZero(_)
GoZero(type) ==
  CASE type = "string" -> ""
    [] type \in {"int", "int32", "DetectMode"} -> 0
    [] type = "float32" -> [v |-> 0, frac |-> FALSE]
    [] type = "bool" -> FALSE
    [] type \in {"[]string", "[]Face"} -> NilSlice
    [] OTHER ->
         [n \in {StructFields(type)[i].go : i \in 1..Len(StructFields(type))} |->
            GoZero(StructFields(type)[FieldIndex(type, n)].type)]

(***************************************************************************)
(* JSON texts, by their grammar: a value, or a text that is no JSON.       *)
(***************************************************************************)
JNull == [t |-> "null"]

JStr(s) == [t |-> "string", s |-> s]

\* the number v, or v + 1/2 when frac
JNum(v) == [t |-> "number", v |-> v, frac |-> FALSE]

JFrac(v) == [t |-> "number", v |-> v, frac |-> TRUE]

JBool(b) == [t |-> "bool", b |-> b]

JArr(a) == [t |-> "array", a |-> a]

\* an object: its <<key, value>> members in the order of the text, a key
\* being the bytes of the member's name
JObj(o) == [t |-> "object", o |-> o]

NotJSON == [t |-> "invalid"]

(***************************************************************************)
(* encoding/json, Marshal of a request struct.                             *)
(***************************************************************************)
\* the "empty" values omitempty drops: false, 0, "", a slice of length 0
IsEmptyValue(type, v) ==
  CASE type = "string" -> v = ""
    [] type \in {"int", "int32", "DetectMode"} -> v = 0
    [] type = "bool" -> v = FALSE
    [] type \in {"[]string", "[]Face"} -> Len(v.elems) = 0
    [] OTHER -> FALSE

\* the encoding of a value of a request field
EncodeValue(type, v) ==
  CASE type = "string" -> JStr(v)
    [] type \in {"int", "int32", "DetectMode"} -> JNum(v)
    [] type = "bool" -> JBool(v)
    [] type = "[]string" ->
         IF v.nil THEN JNull ELSE JArr([i \in 1..Len(v.elems) |-> JStr(v.elems[i])])

\* the name a field is written and read under, in bytes: the name of its json
\* tag, or the name of the field when it has none
FieldName(f) == Names[IF f.tag = "" THEN f.go ELSE f.tag]

RECURSIVE EncodeFields(_, _, _)
EncodeFields(fields, v, i) ==
  IF i > Len(fields) THEN <<>>
  ELSE LET f == fields[i]
       IN (IF ~f.exported \/ (f.omitempty /\ IsEmptyValue(f.type, v[f.go]))
           THEN <<>>
           ELSE << <<FieldName(f), EncodeValue(f.type, v[f.go])>> >>)
          \o EncodeFields(fields, v, i + 1)

\* json.Marshal(req): the text and the error
Marshal(type, v) ==
  [data |-> JObj(EncodeFields(StructFields(type), v, 1)), err |-> "nil"]

(***************************************************************************)
(* encoding/json, Unmarshal into a response struct.                        *)
(***************************************************************************)
\* the name of a member under simple case folding, as bytes.EqualFold compares
\* it with the name of a field: an ASCII capital is its small letter, U+017F
\* (long s) is s and U+212A (Kelvin sign) is k; the other runes of more than
\* one byte fold to runes no field name has and are left as they are
RECURSIVE FoldFrom(_, _)
FoldFrom(s, i) ==
  IF i > Len(s) THEN <<>>
  ELSE IF s[i] >= 65 /\ s[i] <= 90 THEN <<s[i] + 32>> \o FoldFrom(s, i + 1)
  ELSE IF i + 1 <= Len(s) /\ s[i] = 197 /\ s[i + 1] = 191
    THEN <<115>> \o FoldFrom(s, i + 2)
  ELSE IF i + 2 <= Len(s) /\ s[i] = 226 /\ s[i + 1] = 132 /\ s[i + 2] = 170
    THEN <<107>> \o FoldFrom(s, i + 3)
  ELSE <<s[i]>> \o FoldFrom(s, i + 1)

Fold(s) == FoldFrom(s, 1)

\* the index of the field a member named key is stored in, 0 when there is none:
\* the exported field of that name, else the first one equal to it under folding
FindField(fields, key) ==
  LET exact == {i \in 1..Len(fields) : fields[i].exported /\ FieldName(fields[i]) = key}
      fold == {i \in 1..Len(fields) :
                 fields[i].exported /\ Fold(FieldName(fields[i])) = Fold(key)}
      Min(S) == CHOOSE i \in S : \A j \in S : i <= j
  IN IF exact # {} THEN Min(exact) ELSE IF fold # {} THEN Min(fold) ELSE 0

\* the first error of two
FirstErr(e1, e2) == IF e1 # "nil" THEN e1 ELSE e2

\* a JSON value stored into a Go value cur of a type: the value and the error
RECURSIVE DecodeValue(_, _, _)
RECURSIVE DecodeMembers(_, _, _, _)
RECURSIVE DecodeElems(_, _, _, _)
DecodeValue(type, j, cur) ==
  IF j.t = "null" THEN
    [val |-> IF type \in {"[]string", "[]Face"} THEN NilSlice ELSE cur, err |-> "nil"]
  ELSE IF type = "string" THEN
    IF j.t = "string" THEN [val |-> j.s, err |-> "nil"]
    ELSE [val |-> cur, err |-> "UnmarshalTypeError"]
  ELSE IF type \in {"int", "int32", "DetectMode"} THEN
    IF j.t = "number" /\ ~j.frac THEN [val |-> j.v, err |-> "nil"]
    ELSE [val |-> cur, err |-> "UnmarshalTypeError"]
  ELSE IF type = "float32" THEN
    IF j.t = "number" THEN [val |-> [v |-> j.v, frac |-> j.frac], err |-> "nil"]
    ELSE [val |-> cur, err |-> "UnmarshalTypeError"]
  ELSE IF type = "bool" THEN
    IF j.t = "bool" THEN [val |-> j.b, err |-> "nil"]
    ELSE [val |-> cur, err |-> "UnmarshalTypeError"]
  ELSE IF type \in {"[]string", "[]Face"} THEN
    IF j.t = "array" THEN DecodeElems(ElemType(type), j.a, cur.elems, 1)
    ELSE [val |-> cur, err |-> "UnmarshalTypeError"]
  ELSE
    IF j.t = "object" THEN DecodeMembers(type, j.o, cur, 1)
    ELSE [val |-> cur, err |-> "UnmarshalTypeError"]

\* the members of an object stored, in order, into the struct cur
DecodeMembers(type, o, cur, i) ==
  IF i > Len(o) THEN [val |-> cur, err |-> "nil"]
  ELSE LET fields == StructFields(type)
           k == FindField(fields, o[i][1])
       IN IF k = 0 THEN DecodeMembers(type, o, cur, i + 1)
          ELSE LET f == fields[k]
                   r == DecodeValue(f.type, o[i][2], cur[f.go])
                   rest == DecodeMembers(type, o, [cur EXCEPT ![f.go] = r.val], i + 1)
               IN [val |-> rest.val, err |-> FirstErr(r.err, rest.err)]

\* the elements of an array stored into a slice whose elements were old
DecodeElems(type, a, old, i) ==
  IF i > Len(a) THEN [val |-> Slice(<<>>), err |-> "nil"]
  ELSE LET r == DecodeValue(type, a[i], IF i <= Len(old) THEN old[i] ELSE GoZero(type))
           rest == DecodeElems(type, a, old, i + 1)
       IN [val |-> Slice(<<r.val>> \o rest.val.elems), err |-> FirstErr(r.err, rest.err)]

\* json.Unmarshal(body, &rsp), rsp holding a pointer to a struct of a type
\* whose value is cur: the struct afterwards and the error
Unmarshal(body, type, cur) ==
  IF body.t = "invalid" THEN [val |-> cur, err |-> "SyntaxError"]
  ELSE IF body.t = "null" THEN [val |-> cur, err |-> "nil"]
  ELSE DecodeValue(type, body, cur)

(***************************************************************************)
(* The typed operations: the request each builds and the call it makes.    *)
(***************************************************************************)
\* DetectFace: interfaceRequest("detectface", req, &rsp)
DetectFace(yy, a) ==
  [ifname |-> <<100, 101, 116, 101, 99, 116, 102, 97, 99, 101>>,
   reqType |-> "detectFaceReq",
   req |-> [AppID |-> Text(Itoa(yy.appSign.appID)), Image |-> a.image, Mode |-> a.mode],
   rspType |-> "DetectFaceRsp"]

\* FaceCompare: interfaceRequest("facecompare", req, &rsp)
FaceCompare(yy, a) ==
  [ifname |-> <<102, 97, 99, 101, 99, 111, 109, 112, 97, 114, 101>>,
   reqType |-> "faceCompareReq",
   req |-> [AppID |-> Text(appID(yy)), ImageA |-> a.imageA, ImageB |-> a.imageB],
   rspType |-> "FaceCompareRsp"]

\* FaceVerify: interfaceRequest("faceverify", req, &rsp)
FaceVerify(yy, a) ==
  [ifname |-> <<102, 97, 99, 101, 118, 101, 114, 105, 102, 121>>,
   reqType |-> "faceVerifyReq",
   req |-> [AppID |-> Text(appID(yy)), Image |-> a.image, PersonID |-> a.personID],
   rspType |-> "FaceVerifyRsp"]

\* FaceIdentify: interfaceRequest("faceidentify", req, &rsp)
FaceIdentify(yy, a) ==
  [ifname |-> <<102, 97, 99, 101, 105, 100, 101, 110, 116, 105, 102, 121>>,
   reqType |-> "faceIdentifyReq",
   req |-> [AppID |-> Text(appID(yy)), GroupID |-> a.groupID, Image |-> a.image],
   rspType |-> "FaceIdentifyRsp"]

\* NewPerson: interfaceRequest("newperson", req, &rsp)
NewPerson(yy, a) ==
  [ifname |-> <<110, 101, 119, 112, 101, 114, 115, 111, 110>>,
   reqType |-> "newPersonReq",
   req |-> [AppID |-> Text(appID(yy)), PersonID |-> a.personID, Image |-> a.image, GroupIDs |-> a.groupIDs, PersonName |-> a.personName, Tag |-> a.tag],
   rspType |-> "NewPersonRsp"]

\* DelPerson: interfaceRequest("delperson", req, &rsp)
DelPerson(yy, a) ==
  [ifname |-> <<100, 101, 108, 112, 101, 114, 115, 111, 110>>,
   reqType |-> "delPersonReq",
   req |-> [AppID |-> Text(appID(yy)), PersonID |-> a.personID],
   rspType |-> "DelPersonRsp"]

\* AddFace: interfaceRequest("addface", req, &rsp)
AddFace(yy, a) ==
  [ifname |-> <<97, 100, 100, 102, 97, 99, 101>>,
   reqType |-> "addFaceReq",
   req |-> [AppID |-> Text(appID(yy)), Images |-> a.images, PersonID |-> a.personID, Tag |-> a.tag],
   rspType |-> "AddFaceRsp"]

\* DelFace: interfaceRequest("delface", req, &rsp)
DelFace(yy, a) ==
  [ifname |-> <<100, 101, 108, 102, 97, 99, 101>>,
   reqType |-> "delFaceReq",
   req |-> [AppID |-> Text(appID(yy)), PersonID |-> a.personID, FaceIDs |-> a.faceIDs],
   rspType |-> "DelFaceRsp"]

\* SetInfo: interfaceRequest("setinfo", req, &rsp)
SetInfo(yy, a) ==
  [ifname |-> <<115, 101, 116, 105, 110, 102, 111>>,
   reqType |-> "setInfoReq",
   req |-> [AppID |-> Text(appID(yy)), PersonID |-> a.personID, PersonName |-> a.personName, Tag |-> a.tag],
   rspType |-> "SetInfoRsp"]

\* GetInfo: interfaceRequest("getinfo", req, &rsp)
GetInfo(yy, a) ==
  [ifname |-> <<103, 101, 116, 105, 110, 102, 111>>,
   reqType |-> "getInfoReq",
   req |-> [AppID |-> Text(appID(yy)), PersonID |-> a.personID],
   rspType |-> "GetInfoRsp"]

\* GetGroupIDs: interfaceRequest("getgroupids", req, &rsp)
GetGroupIDs(yy, a) ==
  [ifname |-> <<103, 101, 116, 103, 114, 111, 117, 112, 105, 100, 115>>,
   reqType |-> "getGroupIDsReq",
   req |-> [AppID |-> Text(appID(yy))],
   rspType |-> "GetGroupIDsRsp"]

\* GetPersonIDs: interfaceRequest("getpersonids", req, &rsp)
GetPersonIDs(yy, a) ==
  [ifname |-> <<103, 101, 116, 112, 101, 114, 115, 111, 110, 105, 100, 115>>,
   reqType |-> "getPersonIDsReq",
   req |-> [AppID |-> Text(appID(yy)), GroupID |-> a.groupID],
   rspType |-> "GetPersonIDsRsp"]

\* GetFaceIDs: interfaceRequest("getfaceids", req, &rsp)
GetFaceIDs(yy, a) ==
  [ifname |-> <<103, 101, 116, 102, 97, 99, 101, 105, 100, 115>>,
   reqType |-> "getFaceIDsReq",
   req |-> [AppID |-> Text(appID(yy)), PersonID |-> a.personID],
   rspType |-> "GetFaceIDsRsp"]

\* GetFaceInfo: interfaceRequest("getfaceinfo", req, &rsp)
GetFaceInfo(yy, a) ==
  [ifname |-> <<103, 101, 116, 102, 97, 99, 101, 105, 110, 102, 111>>,
   reqType |-> "getFaceInfoReq",
   req |-> [AppID |-> Text(appID(yy)), FaceID |-> a.faceID],
   rspType |-> "GetFaceInfoRsp"]

\* the typed operations, by name
Operations ==
  {"DetectFace", "FaceCompare", "FaceVerify", "FaceIdentify", "NewPerson", "DelPerson", "AddFace", "DelFace", "SetInfo", "GetInfo", "GetGroupIDs", "GetPersonIDs", "GetFaceIDs", "GetFaceInfo"}

\* the call the typed operation fn makes on the client yy with the arguments a
TypedCall(fn, yy, a) ==
  CASE fn = "DetectFace" -> DetectFace(yy, a)
    [] fn = "FaceCompare" -> FaceCompare(yy, a)
    [] fn = "FaceVerify" -> FaceVerify(yy, a)
    [] fn = "FaceIdentify" -> FaceIdentify(yy, a)
    [] fn = "NewPerson" -> NewPerson(yy, a)
    [] fn = "DelPerson" -> DelPerson(yy, a)
    [] fn = "AddFace" -> AddFace(yy, a)
    [] fn = "DelFace" -> DelFace(yy, a)
    [] fn = "SetInfo" -> SetInfo(yy, a)
    [] fn = "GetInfo" -> GetInfo(yy, a)
    [] fn = "GetGroupIDs" -> GetGroupIDs(yy, a)
    [] fn = "GetPersonIDs" -> GetPersonIDs(yy, a)
    [] fn = "GetFaceIDs" -> GetFaceIDs(yy, a)
    [] fn = "GetFaceInfo" -> GetFaceInfo(yy, a)

(***************************************************************************)
(* The transport and the dispatcher.                                       *)
(***************************************************************************)
\* "api.youtu.qq.com"
DefaultHost ==
  <<97, 112, 105, 46, 121, 111, 117, 116, 117, 46, 113, 113, 46, 99, 111, 109>>

\* interfaceURL: "http://%s/youtu/api/%s"
interfaceURL(yy, ifname) ==
  <<104, 116, 116, 112, 58, 47, 47>> \o yy.host
  \o <<47, 121, 111, 117, 116, 117, 47, 97, 112, 105, 47>> \o ifname

\* strings.Index and strings.LastIndex of a byte, from 1, 0 when it is not there
Index(s, c) ==
  LET S == {i \in 1..Len(s) : s[i] = c}
  IN IF S = {} THEN 0 ELSE CHOOSE i \in S : \A j \in S : i <= j

LastIndex(s, c) ==
  LET S == {i \in 1..Len(s) : s[i] = c}
  IN IF S = {} THEN 0 ELSE CHOOSE i \in S : \A j \in S : i >= j

\* net/url ishex and unhex
IsHex(b) == b \in (48..57) \cup (65..70) \cup (97..102)

Unhex(b) == IF b <= 57 THEN b - 48 ELSE IF b <= 70 THEN b - 55 ELSE b - 87

IsAlnum(b) == b \in (48..57) \cup (65..90) \cup (97..122)

\* net/url unescape: every % of s is followed by two hexadecimal digits
ValidEscapes(s) ==
  \A i \in 1..Len(s) :
    s[i] = 37 => (i + 2 <= Len(s) /\ IsHex(s[i + 1]) /\ IsHex(s[i + 2]))

\* net/url shouldEscape(c, encodeHost) is false: a letter, a digit or one of
\* ! $ & ' ( ) * + , ; = : [ ] < > " - _ . ~
HostByte(c) ==
  IsAlnum(c) \/ c \in {33, 36, 38, 39, 40, 41, 42, 43, 44, 59, 61, 58, 91, 93,
                       60, 62, 34, 45, 95, 46, 126}

\* the byte at i starts the escape %25
IsPercent25(s, i) == i + 2 <= Len(s) /\ s[i] = 37 /\ s[i + 1] = 50 /\ s[i + 2] = 53

\* net/url unescape(s, encodeHost): valid escapes, none of an ASCII byte but
\* %25, and no ASCII byte that shouldEscape names
ValidHostText(s) ==
  /\ ValidEscapes(s)
  /\ \A i \in 1..Len(s) :
       IF s[i] = 37 THEN Unhex(s[i + 1]) >= 8 \/ IsPercent25(s, i)
       ELSE s[i] >= 128 \/ HostByte(s[i])

\* net/url unescape(s, encodeZone): an escape is %25, a space or a byte of a host
ValidZoneText(s) ==
  /\ ValidEscapes(s)
  /\ \A i \in 1..Len(s) :
       IF s[i] = 37
       THEN LET v == 16 * Unhex(s[i + 1]) + Unhex(s[i + 2])
            IN IsPercent25(s, i) \/ v = 32 \/ HostByte(v)
       ELSE s[i] >= 128 \/ HostByte(s[i])

\* net/url validOptionalPort: nothing, or a colon and digits
ValidOptionalPort(port) ==
  Len(port) = 0 \/ (port[1] = 58 /\ \A i \in 2..Len(port) : port[i] \in 48..57)

\* net/url parseHost succeeds
ValidHost(host) ==
  IF Len(host) > 0 /\ host[1] = 91
  THEN LET i == LastIndex(host, 93)
           Z == {z \in 1..(i - 3) : IsPercent25(SubSeq(host, 1, i - 1), z)}
           zone == IF Z = {} THEN 0 ELSE CHOOSE z \in Z : \A j \in Z : z <= j
       IN /\ i > 0
          /\ ValidOptionalPort(SubSeq(host, i + 1, Len(host)))
          /\ IF zone > 0
             THEN /\ ValidHostText(SubSeq(host, 1, zone - 1))
                  /\ ValidZoneText(SubSeq(host, zone, i - 1))
                  /\ ValidHostText(SubSeq(host, i, Len(host)))
             ELSE ValidHostText(host)
  ELSE /\ LastIndex(host, 58) > 0 =>
            ValidOptionalPort(SubSeq(host, LastIndex(host, 58), Len(host)))
       /\ ValidHostText(host)

\* net/url validUserinfo: letters, digits and - . _ : ~ ! $ & ' ( ) * + , ; = % @
ValidUserinfo(s) ==
  \A i \in 1..Len(s) :
    IsAlnum(s[i]) \/ s[i] \in {45, 46, 95, 58, 126, 33, 36, 38, 39, 40, 41, 42,
                               43, 44, 59, 61, 37, 64}

\* net/url parseAuthority succeeds: the host after the last @, the userinfo
\* before it
ValidAuthority(authority) ==
  LET i == LastIndex(authority, 64)
  IN /\ ValidHost(SubSeq(authority, i + 1, Len(authority)))
     /\ i > 0 => (/\ ValidUserinfo(SubSeq(authority, 1, i - 1))
                  /\ ValidEscapes(SubSeq(authority, 1, i - 1)))

\* http.NewRequest("POST", url, body) succeeds, that is url.Parse does, for a
\* url that starts with http:// as the one of interfaceURL: the fragment is
\* cut at the first #, the query at the first ?, the authority ends at the
\* first / after the two slashes; no control character before the fragment,
\* a valid authority, valid escapes in the path and in the fragment
ValidURL(url) ==
  LET h == Index(url, 35)
      u == IF h = 0 THEN url ELSE SubSeq(url, 1, h - 1)
      frag == IF h = 0 THEN <<>> ELSE SubSeq(url, h + 1, Len(url))
      rest1 == SubSeq(u, 6, Len(u))
      q == Index(rest1, 63)
      rest == IF q = 0 THEN rest1 ELSE SubSeq(rest1, 1, q - 1)
      after == SubSeq(rest, 3, Len(rest))
      s == Index(after, 47)
      authority == IF s = 0 THEN after ELSE SubSeq(after, 1, s - 1)
      path == IF s = 0 THEN <<>> ELSE SubSeq(after, s, Len(after))
  IN /\ \A i \in 1..Len(u) : u[i] >= 32 /\ u[i] # 127
     /\ ValidAuthority(authority)
     /\ ValidEscapes(path)
     /\ ValidEscapes(frag)

NoError == [kind |-> "nil", msg |-> <<>>]

\* the error of a failing step that get and interfaceRequest return as it is
StepError(step) == [kind |-> step, msg |-> <<>>]

\* fmt.Errorf("json.Unmarshal() rsp: %s failed: %s\n", rsp, err): the text,
\* a verb being the value it formats
Errorf(rspValue, cause) ==
  [kind |-> "Errorf",
   msg |-> << [lit |-> "json.Unmarshal() rsp: "], [value |-> rspValue],
              [lit |-> " failed: "], [error |-> cause], [lit |-> "\n"] >>]

\* the request get builds: the method, the url, the body and the fixed headers;
\* its Authorization header is the token of the caller's sign
NewRequest(url, data) ==
  [method |-> "POST", url |-> url, body |-> data,
   header |-> [ContentType |-> "text/json", UserAgent |-> "", Accept |-> "*/*",
               Expect |-> "100-continue"]]

(***************************************************************************)
(* The inputs of the model.                                                *)
(***************************************************************************)
\* the two-byte character U+00E9
EAcute == <<195, 169>>

\* user ids: empty, one byte, around the limit, and of two-byte characters
UserIDs ==
  {<<>>, <<117>>}
  \cup {Rep(<<117>>, n) : n \in (UserIDMaxLen - LenSlack)..(UserIDMaxLen + LenSlack)}
  \cup {Rep(EAcute, n) : n \in {(UserIDMaxLen \div 2), (UserIDMaxLen \div 2) + 1}}

\* the arguments of NewAppSign: (1, "k", "s", 100, u) and (10000, "AKID", "key2", 0, u)
Credentials ==
  {<<1, <<107>>, <<115>>, 100, u>> : u \in UserIDs}
  \cup {<<10000, <<65, 75, 73, 68>>, <<107, 101, 121, 50>>, 0, u>> : u \in UserIDs}

\* the one credential of the specifications about the dispatcher
OneCredential == {<<1, <<107>>, <<115>>, 100, <<117>>>>}

\* "api.youtu.qq.com", "bad host", "a:b" and "h/a b"
Hosts ==
  {DefaultHost, <<98, 97, 100, 32, 104, 111, 115, 116>>, <<97, 58, 98>>,
   <<104, 47, 97, 32, 98>>}

\* the arguments of the typed operations
ArgsExample ==
  [image |-> "<base64>", imageA |-> "<base64>", imageB |-> "<base64B>",
   personID |-> "p1", groupID |-> "g1", groupIDs |-> Slice(<<"g1">>),
   personName |-> "Alice", tag |-> "", images |-> Slice(<<"<base64>">>),
   faceIDs |-> Slice(<<"f1">>), faceID |-> "f1", mode |-> 0]

ArgsFull == [ArgsExample EXCEPT !.tag = "t", !.mode = 1]

ArgsEmpty ==
  [image |-> "", imageA |-> "", imageB |-> "", personID |-> "", groupID |-> "",
   groupIDs |-> NilSlice, personName |-> "", tag |-> "", images |-> NilSlice,
   faceIDs |-> Slice(<<>>), faceID |-> "", mode |-> 0]

\* the key the service sends a response field under: the one of its json tag,
\* and session_id for the SessionID that has none
WireKey(f) == IF f.tag # "" THEN f.tag ELSE "session_id"

\* a value of the service for a member of a response
RECURSIVE SampleValue(_, _)
SampleValue(type, key) ==
  CASE type = "string" ->
         JStr(CASE key = "session_id" -> "s1" [] key = "person_id" -> "p1"
                [] key = "face_id" -> "f1" [] OTHER -> "x")
    [] type \in {"int", "int32"} -> JNum(3)
    [] type = "float32" -> JFrac(0)
    [] type = "bool" -> JBool(TRUE)
    [] type = "[]string" -> JArr(<<JStr("a"), JStr("b")>>)
    [] type = "[]Face" -> JArr(<<SampleValue("Face", key)>>)
    [] OTHER ->
         JObj([i \in 1..Len(StructFields(type)) |->
                <<Names[WireKey(StructFields(type)[i])],
                  SampleValue(StructFields(type)[i].type, WireKey(StructFields(type)[i]))>>])

\* the well-formed response of an operation: every documented member, with the
\* status code and message given
FullBody(type, code, text) ==
  JObj([i \in 1..Len(StructFields(type)) |->
         LET f == StructFields(type)[i]
         IN <<Names[WireKey(f)],
              IF WireKey(f) = "errorcode" THEN JNum(code)
              ELSE IF WireKey(f) = "errormsg" THEN JStr(text)
              ELSE SampleValue(f.type, WireKey(f))>>])

\* {"session_id":"s1","person_id":"p1","errorcode":0,"errormsg":""}
ExampleBody ==
  JObj(<< <<Names.session_id, JStr("s1")>>, <<Names.person_id, JStr("p1")>>,
          <<Names.errorcode, JNum(0)>>, <<Names.errormsg, JStr("")>> >>)

\* {"session_id":"s1","errorcode":"bad","person_id":"p1","errormsg":"m"}
MismatchBody ==
  JObj(<< <<Names.session_id, JStr("s1")>>, <<Names.errorcode, JStr("bad")>>,
          <<Names.person_id, JStr("p1")>>, <<Names.errormsg, JStr("m")>> >>)

\* the status code of a failed service call
ServiceError == 0 - 1101

\* a name in capitals
Capitals(s) == [i \in 1..Len(s) |-> IF s[i] >= 97 /\ s[i] <= 122 THEN s[i] - 32 ELSE s[i]]

\* the well-formed response with the names of its members in capitals:
\* {"SESSION_ID":"s1", ...}
CapitalsBody(type) ==
  LET o == FullBody(type, 0, "").o
  IN JObj([i \in 1..Len(o) |-> <<Capitals(o[i][1]), o[i][2]>>])

\* the bodies a server answers the operation of a response type with
Bodies(type) ==
  << FullBody(type, 0, ""), FullBody(type, ServiceError, "ERROR"), ExampleBody,
     MismatchBody, NotJSON, JNull, JArr(<<>>), CapitalsBody(type) >>

(***************************************************************************)
(* The state.                                                              *)
(***************************************************************************)
VARIABLES
  phase,    \* "start", "signed" after NewAppSign, "ready" after Init
  newArgs,  \* the arguments NewAppSign was called with
  cred,     \* what NewAppSign returned: [as, err]
  y,        \* the client, *Youtu
  clock,    \* the wall clock, in unix seconds
  rng,      \* the generator of math/rand, shared by the process
  pc,       \* where each caller is in its call
  call,     \* the call of each caller: ifname, request, response type
  now,      \* orignalSign's now
  rnd,      \* orignalSign's rnd
  orig,     \* sign's origSign
  sent,     \* the requests client.Do was given for each caller
  body,     \* the body read from the response
  rsp,      \* the response value the typed operation returns
  err       \* the error the typed operation returns

vars ==
  <<phase, newArgs, cred, y, clock, rng, pc, call, now, rnd, orig, sent, body, rsp, err>>

Callers == {1, 2}

NoCall == [ifname |-> <<>>, reqType |-> "", req |-> <<>>, rspType |-> ""]

Init ==
  /\ phase = "start"
  /\ newArgs = <<>>
  /\ cred = [as |-> ZeroAppSign, err |-> "nil"]
  /\ y = YoutuInit(ZeroAppSign, <<>>)
  /\ clock = StartTime
  /\ rng = RandInitial
  /\ pc = [p \in Callers |-> "idle"]
  /\ call = [p \in Callers |-> NoCall]
  /\ now = [p \in Callers |-> 0]
  /\ rnd = [p \in Callers |-> 0]
  /\ orig = [p \in Callers |-> <<>>]
  /\ sent = [p \in Callers |-> <<>>]
  /\ body = [p \in Callers |-> JNull]
  /\ rsp = [p \in Callers |-> <<>>]
  /\ err = [p \in Callers |-> NoError]

(***************************************************************************)
(* The operations.                                                         *)
(***************************************************************************)
\* the program calls NewAppSign
CallNewAppSign(credentials) ==
  /\ phase = "start"
  /\ \E a \in credentials :
       /\ newArgs' = a
       /\ cred' = NewAppSign(a[1], a[2], a[3], a[4], a[5])
  /\ phase' = "signed"
  /\ UNCHANGED <<y, clock, rng, pc, call, now, rnd, orig, sent, body, rsp, err>>

\* and, given a credential, Init
CallInit(hosts) ==
  /\ phase = "signed"
  /\ cred.err = "nil"
  /\ \E h \in hosts : y' = YoutuInit(cred.as, h)
  /\ phase' = "ready"
  /\ UNCHANGED <<newArgs, cred, clock, rng, pc, call, now, rnd, orig, sent, body, rsp, err>>

\* a second of wall-clock time passes
Tick ==
  /\ clock < StartTime + MaxTicks
  /\ clock' = clock + 1
  /\ UNCHANGED <<phase, newArgs, cred, y, rng, pc, call, now, rnd, orig, sent, body, rsp, err>>

\* a caller invokes a typed operation: the request is filled, interfaceRequest
\* marshals it, and get builds the http request
Invoke(p, fns, arguments) ==
  /\ phase = "ready"
  /\ pc[p] = "idle"
  /\ \E fn \in fns, a \in arguments :
       LET c == TypedCall(fn, y, a)
           url == interfaceURL(y, c.ifname)
           m == Marshal(c.reqType, c.req)
       IN /\ call' = [call EXCEPT ![p] = c]
          /\ rsp' = [rsp EXCEPT ![p] = GoZero(c.rspType)]
          /\ IF m.err # "nil"
             THEN /\ err' = [err EXCEPT ![p] = StepError("Marshal")]
                  /\ pc' = [pc EXCEPT ![p] = "done"]
             ELSE IF ~ValidURL(url)
             THEN /\ err' = [err EXCEPT ![p] = StepError("NewRequest")]
                  /\ pc' = [pc EXCEPT ![p] = "done"]
             ELSE /\ err' = err
                  /\ pc' = [pc EXCEPT ![p] = "now"]
  /\ UNCHANGED <<phase, newArgs, cred, y, clock, rng, now, rnd, orig, sent, body>>

\* orignalSign: now := time.Now().Unix()
TimeNow(p) ==
  /\ pc[p] = "now"
  /\ now' = [now EXCEPT ![p] = clock]
  /\ pc' = [pc EXCEPT ![p] = "seed"]
  /\ UNCHANGED <<phase, newArgs, cred, y, clock, rng, call, rnd, orig, sent, body, rsp, err>>

\* a reseed that also moves the credential's expiry to the second read
SeedMovesExpiry(p) ==
  /\ pc[p] = "seed"
  /\ rng' = RandSeed(now[p])
  /\ y' = [y EXCEPT !.appSign.expired = now[p]]
  /\ pc' = [pc EXCEPT ![p] = "int31"]
  /\ UNCHANGED <<phase, newArgs, cred, clock, call, now, rnd, orig, sent, body, rsp, err>>

\* orignalSign: rand.Seed(int64(now))
Seed(p) ==
  /\ pc[p] = "seed"
  /\ rng' = RandSeed(now[p])
  /\ pc' = [pc EXCEPT ![p] = "int31"]
  /\ UNCHANGED <<phase, newArgs, cred, y, clock, call, now, rnd, orig, sent, body, rsp, err>>

\* orignalSign: rnd := rand.Int31()
Int31(p) ==
  /\ pc[p] = "int31"
  /\ rnd' = [rnd EXCEPT ![p] = RandInt31(rng)]
  /\ rng' = RandAdvance(rng)
  /\ pc' = [pc EXCEPT ![p] = "do"]
  /\ UNCHANGED <<phase, newArgs, cred, y, clock, call, now, orig, sent, body, rsp, err>>

\* orignalSign formats the string, sign makes the token of it, get sets the
\* headers and hands the request to client.Do
Do(p) ==
  /\ pc[p] = "do"
  /\ orig' = [orig EXCEPT ![p] = SignFormat(y.appSign, now[p], rnd[p])]
  /\ sent' = [sent EXCEPT ![p] =
               Append(sent[p], NewRequest(interfaceURL(y, call[p].ifname),
                                          Marshal(call[p].reqType, call[p].req).data))]
  /\ pc' = [pc EXCEPT ![p] = "wait"]
  /\ UNCHANGED <<phase, newArgs, cred, y, clock, rng, call, now, rnd, body, rsp, err>>

\* a failed client.Do that is tried again
DoFailsRetries(p) ==
  /\ pc[p] = "wait"
  /\ pc' = [pc EXCEPT ![p] = "do"]
  /\ UNCHANGED <<phase, newArgs, cred, y, clock, rng, call, now, rnd, orig, sent, body, rsp, err>>

\* client.Do fails: no connection, no name, or the 5 seconds passed
DoFails(p) ==
  /\ pc[p] = "wait"
  /\ err' = [err EXCEPT ![p] = StepError("Do")]
  /\ pc' = [pc EXCEPT ![p] = "done"]
  /\ UNCHANGED <<phase, newArgs, cred, y, clock, rng, call, now, rnd, orig, sent, body, rsp>>

\* the response arrives and ioutil.ReadAll of its body fails
ReadFails(p) ==
  /\ pc[p] = "wait"
  /\ err' = [err EXCEPT ![p] = StepError("ReadAll")]
  /\ pc' = [pc EXCEPT ![p] = "done"]
  /\ UNCHANGED <<phase, newArgs, cred, y, clock, rng, call, now, rnd, orig, sent, body, rsp>>

\* the body is read and interfaceRequest unmarshals it into the response
Receive(p, choices) ==
  /\ pc[p] = "wait"
  /\ \E i \in choices :
       LET b == Bodies(call[p].rspType)[i]
           r == Unmarshal(b, call[p].rspType, rsp[p])
       IN /\ body' = [body EXCEPT ![p] = b]
          /\ rsp' = [rsp EXCEPT ![p] = r.val]
          /\ err' = [err EXCEPT ![p] =
                      IF r.err # "nil" THEN Errorf(r.val, r.err) ELSE NoError]
  /\ pc' = [pc EXCEPT ![p] = "done"]
  /\ UNCHANGED <<phase, newArgs, cred, y, clock, rng, call, now, rnd, orig, sent>>

\* the Authorization header of the request of a caller: y.sign()
Authorization(p) == SignToken(y.appSign, orig[p])

(***************************************************************************)
(* The specifications.                                                     *)
(***************************************************************************)
\* one caller, one credential, every operation and every answer
Next ==
  \/ CallNewAppSign(OneCredential)
  \/ CallInit(Hosts)
  \/ Tick
  \/ Invoke(1, Operations, {ArgsExample, ArgsFull, ArgsEmpty})
  \/ TimeNow(1)
  \/ Seed(1)
  \/ Int31(1)
  \/ Do(1)
  \/ DoFails(1)
  \/ ReadFails(1)
  \/ Receive(1, 1..8)

Spec == Init /\ [][Next]_vars

\* one caller, every credential, one operation
NextSign ==
  \/ CallNewAppSign(Credentials)
  \/ CallInit(Hosts)
  \/ Tick
  \/ Invoke(1, {"GetGroupIDs"}, {ArgsEmpty})
  \/ TimeNow(1)
  \/ Seed(1)
  \/ Int31(1)
  \/ Do(1)
  \/ DoFails(1)
  \/ ReadFails(1)
  \/ Receive(1, {1})

SpecSign == Init /\ [][NextSign]_vars

\* two callers sharing one client
NextShared ==
  \/ CallNewAppSign(OneCredential)
  \/ CallInit({DefaultHost})
  \/ Tick
  \/ \E p \in Callers :
       \/ Invoke(p, {"SetInfo", "NewPerson"}, {ArgsExample})
       \/ TimeNow(p)
       \/ Seed(p)
       \/ Int31(p)
       \/ Do(p)
       \/ DoFails(p)
       \/ ReadFails(p)
       \/ Receive(p, {2, 4})

SpecShared == Init /\ [][NextShared]_vars

(***************************************************************************)
(* What the properties are stated with.                                    *)
(***************************************************************************)
DigitText == <<"0", "1", "2", "3", "4", "5", "6", "7", "8", "9">>

\* the decimal numeral of a natural number, as text
RECURSIVE DecText(_)
DecText(n) ==
  IF n < 10 THEN DigitText[n + 1] ELSE DecText(n \div 10) \o DigitText[(n % 10) + 1]

\* the value of a base64 digit
B64Val(c) ==
  IF c >= 65 /\ c <= 90 THEN c - 65
  ELSE IF c >= 97 /\ c <= 122 THEN c - 71
  ELSE IF c >= 48 /\ c <= 57 THEN c + 4
  ELSE IF c = 43 THEN 62
  ELSE IF c = 47 THEN 63
  ELSE 0

\* the bytes a padded base64 text stands for
B64Decode(s) ==
  LET pad == IF Len(s) = 0 THEN 0
             ELSE IF s[Len(s) - 1] = 61 THEN 2
             ELSE IF s[Len(s)] = 61 THEN 1 ELSE 0
  IN [i \in 1..(3 * (Len(s) \div 4) - pad) |->
        LET g == 4 * ((i - 1) \div 3)
            j == (i - 1) % 3
        IN IF j = 0 THEN B64Val(s[g + 1]) * 4 + (B64Val(s[g + 2]) \div 16)
           ELSE IF j = 1 THEN (B64Val(s[g + 2]) % 16) * 16 + (B64Val(s[g + 3]) \div 4)
           ELSE (B64Val(s[g + 3]) % 4) * 64 + B64Val(s[g + 4])]

\* the caller has called NewAppSign
Signed == phase # "start"

\* the caller's request was handed to client.Do
Sent(p) == pc[p] \in {"wait", "done"} /\ Len(sent[p]) > 0

\* the caller's request is with client.Do
InFlight(p) == pc[p] = "wait" /\ Len(sent[p]) > 0

\* the caller's rnd was drawn
Drawn(p) == pc[p] \in {"do", "wait"} \/ (pc[p] = "done" /\ Len(sent[p]) > 0)

\* the name of the operation of a response type, as the service documents it
ServiceName(rspType) ==
  CASE rspType = "DetectFaceRsp" -> "detectface"
    [] rspType = "FaceCompareRsp" -> "facecompare"
    [] rspType = "FaceVerifyRsp" -> "faceverify"
    [] rspType = "FaceIdentifyRsp" -> "faceidentify"
    [] rspType = "NewPersonRsp" -> "newperson"
    [] rspType = "DelPersonRsp" -> "delperson"
    [] rspType = "AddFaceRsp" -> "addface"
    [] rspType = "DelFaceRsp" -> "delface"
    [] rspType = "SetInfoRsp" -> "setinfo"
    [] rspType = "GetInfoRsp" -> "getinfo"
    [] rspType = "GetGroupIDsRsp" -> "getgroupids"
    [] rspType = "GetPersonIDsRsp" -> "getpersonids"
    [] rspType = "GetFaceIDsRsp" -> "getfaceids"
    [] rspType = "GetFaceInfoRsp" -> "getfaceinfo"

\* the Go value v of a type reproduces the JSON value j
RECURSIVE Reproduces(_, _, _)
Reproduces(type, j, v) ==
  CASE type = "string" -> v = j.s
    [] type \in {"int", "int32"} -> v = j.v
    [] type = "float32" -> v = [v |-> j.v, frac |-> j.frac]
    [] type = "bool" -> v = j.b
    [] type \in {"[]string", "[]Face"} ->
         /\ Len(v.elems) = Len(j.a)
         /\ \A i \in 1..Len(j.a) : Reproduces(ElemType(type), j.a[i], v.elems[i])
    [] OTHER ->
         \A i \in 1..Len(j.o) :
           Reproduces(StructFields(type)[i].type, j.o[i][2], v[StructFields(type)[i].go])

\* the field of a response type that the member named key is documented to fill
DocumentedField(type, key) ==
  StructFields(type)[CHOOSE i \in 1..Len(StructFields(type)) :
                       WireKey(StructFields(type)[i]) = key]

\* the text of an error has a part that is the value v formatted
Carries(e, part) == \E i \in 1..Len(e.msg) : e.msg[i] = part

(***************************************************************************)
(* The properties.                                                         *)
(***************************************************************************)

\* C1: NewAppSign returns ErrUserIDTooLong exactly when the user id is longer
\* than 110 (len, in bytes), and otherwise no error and a credential holding the
\* five arguments unchanged; a user id of exactly 110 is accepted.
C1_NewAppSignLimit ==
  Signed =>
    /\ (Len(newArgs[5]) > 110) <=> (cred.err = "ErrUserIDTooLong")
    /\ (Len(newArgs[5]) <= 110) =>
         /\ cred.err = "nil"
         /\ cred.as.appID = newArgs[1]
         /\ cred.as.secretID = newArgs[2]
         /\ cred.as.secretKey = newArgs[3]
         /\ cred.as.expired = newArgs[4]
         /\ cred.as.userID = newArgs[5]

\* a user id of exactly 110 bytes was accepted, the arguments kept
C1_Witness ==
  /\ Signed
  /\ Len(newArgs[5]) = 110
  /\ cred.err = "nil"
  /\ cred.as.userID = newArgs[5]
  /\ cred.as.appID = 10000

\* the canonical string of appID=1, secretID="k", expiry=100, t=1000, r=5, userID="u"
C2_Example ==
  Text(SignFormat([appID |-> 1, secretID |-> <<107>>, secretKey |-> <<115>>,
                   expired |-> 100, userID |-> <<117>>], 1000, 5))

\* C2: the canonical string the signer builds is the seven fields a, k, e, t, r,
\* u, f in this order, "=" between key and value, "&" between fields, f empty:
\* a=<appID>&k=<secretID>&e=<expiry>&t=<t>&r=<r>&u=<userID>&f=
C2_CanonicalString ==
  /\ C2_Example = "a=1&k=k&e=100&t=1000&r=5&u=u&f="
  /\ \A p \in Callers :
       Sent(p) =>
         /\ Text(orig[p]) =
              "a=" \o DecText(y.appSign.appID) \o "&k=" \o Text(y.appSign.secretID)
              \o "&e=" \o DecText(y.appSign.expired) \o "&t=" \o DecText(now[p])
              \o "&r=" \o DecText(rnd[p]) \o "&u=" \o Text(y.appSign.userID) \o "&f="
         /\ SubSeq(orig[p], Len(orig[p]) - 2 - Len(y.appSign.userID), Len(orig[p]) - 3)
              = y.appSign.userID

\* a canonical string was built for the credential (10000, "AKID", "key2", 0, a
\* user id of 110 bytes) with a time and a nonce read and drawn by the signer
C2_Witness ==
  \E p \in Callers :
    /\ Sent(p)
    /\ y.appSign.appID = 10000
    /\ Len(y.appSign.userID) = 110
    /\ now[p] > StartTime
    /\ rnd[p] > 0

\* the token of the canonical string "a=1&k=k&e=100&t=1000&r=5&u=u&f=" under
\* the secret key "s"
C3_ExampleToken ==
  Text(SignToken([appID |-> 1, secretID |-> <<107>>, secretKey |-> <<115>>,
                  expired |-> 100, userID |-> <<117>>],
                 SignFormat([appID |-> 1, secretID |-> <<107>>, secretKey |-> <<115>>,
                             expired |-> 100, userID |-> <<117>>], 1000, 5)))

\* C3: the token of a request in flight is the standard base64 of the 20 bytes of the HMAC-SHA1 of the
\* canonical string under the secret key, followed with no delimiter by that
\* same canonical string; the token of the example is the one HMAC-SHA1 and
\* base64 give on any build.
C3_Token ==
  /\ C3_ExampleToken =
       "hsbesmluSy17nJecdrvVJWS9MAxhPTEmaz1rJmU9MTAwJnQ9MTAwMCZyPTUmdT11JmY9"
  /\ \A p \in Callers :
       InFlight(p) =>
         LET token == Authorization(p)
             raw == B64Decode(token)
         IN /\ Len(token) % 4 = 0
            /\ Len(raw) = 20 + Len(orig[p])
            /\ SubSeq(raw, 1, 20) = HmacSha1(y.appSign.secretKey, orig[p])
            /\ SubSeq(raw, 21, Len(raw)) = orig[p]

\* a request went out whose token was made under the key "key2"
C3_Witness ==
  \E p \in Callers :
    /\ pc[p] = "wait"
    /\ Len(orig[p]) > 110
    /\ y.appSign.secretKey = <<107, 101, 121, 50>>
    /\ Len(Authorization(p)) > 0

\* C4: an invocation hands at most one request to the network, a POST to
\* http://<host>/youtu/api/<name of the operation>: exactly one once the request
\* was marshalled and built, none when that failed, and no second one after a
\* failure; the failing step's error is returned and no later step has run.
C4_OnePost ==
  \A p \in Callers :
    /\ Len(sent[p]) <= 1
    /\ pc[p] = "wait" => Len(sent[p]) = 1
    /\ pc[p] = "done" =>
         /\ (Len(sent[p]) = 0) <=> (err[p].kind \in {"Marshal", "NewRequest"})
         /\ err[p].kind \in {"Marshal", "NewRequest"} =>
              now[p] = 0 /\ orig[p] = <<>> /\ rng = RandInitial
         /\ err[p].kind \in {"Marshal", "NewRequest", "Do", "ReadAll"} =>
              body[p] = JNull /\ rsp[p] = GoZero(call[p].rspType)
    /\ \A i \in 1..Len(sent[p]) :
         /\ sent[p][i].method = "POST"
         /\ Text(sent[p][i].url) =
              "http://" \o Text(y.host) \o "/youtu/api/" \o ServiceName(call[p].rspType)

\* a call whose request went out once and whose client.Do failed has returned
C4_Witness ==
  \E p \in Callers :
    /\ pc[p] = "done"
    /\ err[p].kind = "Do"
    /\ Len(sent[p]) = 1
    /\ call[p].rspType = "NewPersonRsp"

\* C5: when the exchange succeeds and the body decodes, the error is nil whatever
\* the status code, and a non-zero errorcode and its errormsg are in the response
\* value returned.
C5_StatusInResponse ==
  \A p \in Callers :
    (pc[p] = "done" /\ body[p] = FullBody(call[p].rspType, ServiceError, "ERROR")) =>
      /\ err[p] = NoError
      /\ rsp[p][DocumentedField(call[p].rspType, "errorcode").go] = ServiceError
      /\ rsp[p][DocumentedField(call[p].rspType, "errormsg").go] = "ERROR"

\* C6: when the body is not JSON, or is JSON of another shape, the dispatcher
\* returns an error that carries the raw body and the parse error.
C6_ErrorCarriesBody ==
  \A p \in Callers :
    (pc[p] = "done" /\ body[p] \in {NotJSON, JArr(<<>>)}) =>
      /\ err[p].kind = "Errorf"
      /\ Carries(err[p], [error |-> IF body[p] = NotJSON THEN "SyntaxError"
                                    ELSE "UnmarshalTypeError"])
      /\ Carries(err[p], [value |-> body[p]])

\* C7: a well-formed response fills every documented field of the response
\* value from its member.
C7_FieldsReproduced ==
  \A p \in Callers :
    (pc[p] = "done" /\ body[p] = FullBody(call[p].rspType, 0, "")) =>
      Reproduces(call[p].rspType, body[p], rsp[p])

\* C8: once the client is constructed no step writes it or the credential; of
\* the state the callers share, only the generator is written.
C8_ClientReadOnly ==
  [][phase = "ready" => (y' = y /\ cred' = cred /\ newArgs' = newArgs)]_vars

\* both callers have completed a call on the one client, and the generator was
\* reseeded and drawn from
C8_Witness ==
  /\ pc[1] = "done"
  /\ pc[2] = "done"
  /\ Len(sent[1]) = 1
  /\ Len(sent[2]) = 1
  /\ rng # RandInitial
  /\ y = YoutuInit(cred.as, DefaultHost)

\* C9, as claimed: the nonce of a token is the first output of the generator
\* seeded with the token's t, so two builds that read the same second carry the
\* same nonce and the same canonical string, however they are interleaved.
C9_NonceOfSecond ==
  \A p \in Callers :
    Drawn(p) =>
      /\ rnd[p] = StreamAt(now[p], 0)
      /\ \A q \in Callers :
           (Drawn(q) /\ now[q] = now[p]) => rnd[q] = rnd[p]

\* C9, amended: a draw made while the generator is as the build's own reseed
\* left it yields the first output of the generator seeded with the build's t;
\* two builds whose nonces are so drawn in the same second carry the same nonce
\* and the same canonical string.
C9_NonceOfUndisturbedDraw ==
  [][\A p \in Callers :
       /\ (pc[p] = "int31" /\ pc'[p] = "do" /\ rng = RandSeed(now[p])) =>
            rnd'[p] = StreamAt(now[p], 0)
       /\ \A q \in Callers :
            (/\ Sent(p)' /\ Sent(q)' /\ now'[p] = now'[q]
             /\ rnd'[p] = StreamAt(now'[p], 0) /\ rnd'[q] = StreamAt(now'[q], 0)) =>
              orig'[p] = orig'[q]]_vars

\* two builds, one after the other in the same second, carry the same nonce
C9_Witness ==
  /\ Sent(1)
  /\ Sent(2)
  /\ now[1] = now[2]
  /\ rnd[1] = StreamAt(now[1], 0)
  /\ rnd[2] = rnd[1]
  /\ orig[1] = orig[2]

\* C10: whenever an operation returns an error, the response value it returns
\* is the zero value.
C10_NoPartialResult ==
  \A p \in Callers :
    (pc[p] = "done" /\ err[p] # NoError) => rsp[p] = GoZero(call[p].rspType)

=============================================================================
